---------------------------- MODULE Spec2Model ----------------------------
(***************************************************************************)
(* Supervision state machine of doodie_duty (src/src/supervisor.py).       *)
(*                                                                         *)
(* DogSupervisor runs one monitor task.  Each iteration of _monitor_loop    *)
(* awaits a frame from the camera, awaits the detector on a worker thread   *)
(* and then, without any further suspension point, evaluates the counts:    *)
(* _determine_state, _handle_state_change or _check_alert_condition, and    *)
(* _trigger_event.  The model has one action per suspension-free stretch    *)
(* of that code.  Time is the wall clock read by datetime.now(), in whole   *)
(* seconds.                                                                 *)
(*                                                                         *)
(* ActionManager (src/src/actions.py) runs the side-effect actions of an    *)
(* alert.  trigger_actions suspends once per executed action, inside the    *)
(* action's _execute; the model has one action for the call up to its first *)
(* suspension and one for each completed _execute up to the next.           *)
(*                                                                         *)
(* CameraCapture (src/src/camera.py) keeps the latest frame in one slot,    *)
(* written by its capture thread and copied by get_frame, both under        *)
(* frame_lock; the model has one action per step of either thread.          *)
(***************************************************************************)
EXTENDS Integers, Sequences, FiniteSets, TLC

\* ------------------------------------------------------------------ bounds
\* Largest clock value explored (seconds since construction).
MaxTime == 4
\* Largest alert_delay_seconds a supervisor is constructed with.
MaxDelay == 2
\* Largest number of dogs, and of humans, the detector reports for a frame.
MaxCount == 1
\* Capacity of event_history.  The program sets 1000 (supervisor.py:54); the
\* model keeps the eviction code and scales the capacity down: HistorySize
\* is the capacity of the supervisor whose timing is explored up to MaxTime,
\* MaxHistorySize the largest capacity of the supervisors whose event
\* dispatch is explored.
HistorySize == 1
MaxHistorySize == 2
\* Largest number of event handlers registered at a time.
MaxHandlers == 2
\* Largest clock value explored for the ActionManager, whose clock advances
\* ActionClockStep seconds at a time.
MaxActionTime == 60
ActionClockStep == 10

\* The turns of the recording loop that are told apart.
MaxFrames == 2

\* Largest number of start() calls suspended at the same time.
MaxStartCalls == 2

\* Largest limit passed to get_recent_events.
MaxLimit == 3

\* The cells of a frame that are told apart.
FrameCells == 2
\* Largest number of frames cap.read() delivers.
MaxCaptured == 2
\* Largest number of arrays allocated (frames read and copies made).
MaxBuffers == 4
\* Number of threads that call get_frame.
NumReaders == 2

\* ------------------------------------------------------------- data model
\* Optional[...] = None
None == -1

\* class SupervisionState(Enum)
IDLE == "idle"
SUPERVISED == "supervised"
UNSUPERVISED == "unsupervised"
ALERT == "alert"
SupervisionState == {IDLE, SUPERVISED, UNSUPERVISED, ALERT}

\* @dataclass SupervisionEvent (frame_snapshot and detections carry no
\* control information and are left out)
SupervisionEvent(state, timestamp, dogs, humans, duration) ==
    [state |-> state, timestamp |-> timestamp, dogs_detected |-> dogs,
     humans_detected |-> humans, duration_unsupervised |-> duration]

VARIABLES
    current_state,            \* self.current_state
    unsupervised_start_time,  \* self.unsupervised_start_time, None or a time
    event_history,            \* self.event_history
    alert_delay_seconds,      \* self.alert_delay_seconds
    max_history_size,         \* self.max_history_size
    event_handlers,           \* self.event_handlers, in registration order
    is_running,               \* self.is_running
    pc,                       \* where the monitor task is suspended
    now,                      \* datetime.now()
    cycle,                    \* observation of the current / last cycle
    span_alerts,              \* observation: Alert events in the current run
                              \* of consecutive (d > 0, h = 0) cycles
    scenario,                 \* observation: progress along the scenarios
    actions,                  \* ActionManager.actions, in insertion order
    last_trigger_time,        \* ActionManager.last_trigger_time
    cooldown_seconds,         \* ActionManager.cooldown_seconds
    batch,                    \* the trigger_actions call in progress, or the
                              \* last one that returned
    previous,                 \* observation: the call before that one
    attempts,                 \* observation: per action, the outcome of its
                              \* latest execution and whether one succeeded
    overlapping,              \* a trigger_actions call made while the call
                              \* of batch is suspended, or the last such call
    is_recording,             \* VideoRecorder.is_recording
    recording_task,           \* VideoRecorder.recording_task: the task
                              \* running _record_video, if any
    application,              \* where DoodieDutyApp is in its life
    camera_running,           \* camera.sync_capture.is_running
    start_calls,              \* the start() calls suspended in the await
                              \* of camera.start()
    stop_pc,                  \* where a stop() call is suspended, if any
    orphan_pc,                \* where a monitor task that self.monitor_task
                              \* no longer refers to is suspended, if any
    returned,                 \* observation: the start() or stop() call
                              \* that returned last, and how
    settled,                  \* observation: stop() was called with no
                              \* start() in progress and none was called
                              \* since
    ever_started,             \* observation: a start() call has created a
                              \* monitor task
    frame_lock,               \* CameraCapture.frame_lock: the thread that
                              \* holds it, or None
    current_frame,            \* CameraCapture.current_frame: a reference
                              \* to an array, or None
    heap,                     \* the arrays allocated so far, by reference
    capture_pc,               \* position of the capture thread in the
                              \* body of _capture_loop
    capture_frame,            \* frame, the local of _capture_loop
    captured,                 \* number of frames cap.read() has delivered
    reader_pc,                \* position of each get_frame call
    reader_src,               \* the reference each get_frame call read
                              \* from current_frame
    reader_pos,               \* the cells each copy() has copied so far
    reader_result             \* what each get_frame call returned

\* The observer registry and history capacity of the supervisor.
registry == <<max_history_size, event_handlers>>

\* The VideoRecorder and the application that owns its event loop.
recorder == <<is_recording, recording_task, application>>

\* The ActionManager, its actions and the observations of its calls.
manager == <<actions, last_trigger_time, cooldown_seconds, batch, previous,
             attempts, overlapping, recorder>>

\* The camera, the start() and stop() calls in progress and the
\* observations of these calls.
lifecycle == <<camera_running, start_calls, stop_pc, orphan_pc, returned,
               settled, ever_started>>

\* The CameraCapture object, its capture thread and the get_frame calls.
capture == <<frame_lock, current_frame, heap, capture_pc, capture_frame,
             captured, reader_pc, reader_src, reader_pos, reader_result>>

vars == <<current_state, unsupervised_start_time, event_history,
          alert_delay_seconds, registry, is_running, pc, now, cycle,
          span_alerts, scenario, manager, lifecycle, capture>>

\* The observation of a cycle that has just begun: nothing fetched, nothing
\* detected, no handler called.
FreshCycle ==
    [frame |-> "pending", detected |-> FALSE, evaluated |-> FALSE,
     raised |-> FALSE, dogs |-> 0, humans |-> 0, emitted |-> <<>>,
     notified |-> <<>>, calls |-> <<>>]

\* The callables registered as event handlers: the application's on_event
\* (main.py, an async def), the web application's on_event (web_app.py, a
\* plain function that schedules the broadcast) and a handler that raises
\* on every call.
EventHandler == {"main.on_event", "web_app.on_event", "raising"}

\* ---------------------------------------------------------- pure helpers
\* Mutant of is_dog_unsupervised: the humans are not looked at.
is_dog_unsupervised_any_dog(dogs, humans) == dogs > 0

\* DogHumanDetector.is_dog_unsupervised: the flag computed from the two lists
is_dog_unsupervised(dogs, humans) == dogs > 0 /\ humans = 0

\* Mutant of _determine_state: the two branches for a present dog swapped.
_determine_state_swapped(is_unsupervised, dog_count, human_count) ==
    IF dog_count = 0 THEN IDLE
    ELSE IF is_unsupervised THEN SUPERVISED
    ELSE UNSUPERVISED

\* DogSupervisor._determine_state
_determine_state(is_unsupervised, dog_count, human_count) ==
    IF dog_count = 0 THEN IDLE
    ELSE IF is_unsupervised THEN UNSUPERVISED
    ELSE SUPERVISED

\* Mutant of append_to_history: on overflow the newest entry is dropped.
append_dropping_newest(event) ==
    LET appended == Append(event_history, event)
    IN  IF Len(appended) > max_history_size
        THEN SubSeq(appended, 1, Len(appended) - 1)
        ELSE appended

\* _trigger_event, lines 211-213: append, then drop the oldest entry when
\* the list is over capacity.
append_to_history(event) ==
    LET appended == Append(event_history, event)
    IN  IF Len(appended) > max_history_size THEN Tail(appended) ELSE appended

\* What the call handler(event) on line 220 does.  Calling an async def
\* builds a coroutine object and runs none of its body; line 220 drops the
\* object, so nothing awaits or schedules it.
handler_result(handler) ==
    CASE handler = "main.on_event" -> "coroutine"
      [] handler = "raising" -> "raised"
      [] OTHER -> "returned"

\* The record of one call handler(event): recorded says whether the event
\* was the newest entry of the history the handler could read, and seen is
\* the state that get_current_status returns to the handler, that is
\* self.current_state at the time of the call.
HandlerCall(handler, event, history) ==
    [handler |-> handler, event |-> event,
     recorded |-> history # <<>> /\ history[Len(history)] = event,
     result |-> handler_result(handler),
     seen |-> current_state]

\* Mutant of call_event_handlers: no try/except around the call, so the
\* first exception ends the loop and leaves _trigger_event.
call_event_handlers_unguarded(event, history) ==
    LET raising == {i \in 1..Len(event_handlers) :
                       handler_result(event_handlers[i]) = "raised"}
        last == IF raising = {} THEN Len(event_handlers)
                ELSE CHOOSE i \in raising : \A j \in raising : i <= j
    IN  [calls |-> [i \in 1..last |->
                       HandlerCall(event_handlers[i], event, history)],
         raised |-> raising # {}]

\* _trigger_event, lines 218-223: the handlers are called in list order;
\* an exception of a handler is caught and reported, and the loop goes on.
call_event_handlers(event, history) ==
    [calls |-> [i \in 1..Len(event_handlers) |->
                   HandlerCall(event_handlers[i], event, history)],
     raised |-> FALSE]

\* Mutant of _trigger_event: the handlers are called before the append.
_trigger_event_handlers_first(event) ==
    LET called == call_event_handlers(event, event_history)
    IN  [event_history |-> append_to_history(event),
         calls |-> called.calls, raised |-> called.raised]

\* DogSupervisor._trigger_event: the history after the append, the handler
\* calls made, and whether an exception leaves the method.
_trigger_event(event) ==
    LET history == append_to_history(event)
        called == call_event_handlers(event, history)
    IN  [event_history |-> history,
         calls |-> called.calls, raised |-> called.raised]

\* What a stretch of evaluation code does to the supervisor: the new state,
\* timer and history, the events handed to the event handlers, the calls of
\* event handlers made, the (old, new) pairs handed to the state-change
\* handlers, and whether an exception ended the stretch.
NoEffect ==
    [current_state |-> current_state,
     unsupervised_start_time |-> unsupervised_start_time,
     event_history |-> event_history,
     emitted |-> <<>>, notified |-> <<>>, calls |-> <<>>, raised |-> FALSE]

\* Mutant of start_time_after_change: the timer is never cleared.
start_time_never_cleared(new_state, timestamp) ==
    IF new_state = UNSUPERVISED THEN timestamp ELSE unsupervised_start_time

\* _handle_state_change, lines 149-156: the timer after a change to new_state
start_time_after_change(new_state, timestamp) ==
    IF new_state = UNSUPERVISED THEN timestamp ELSE None

\* DogSupervisor._handle_state_change
_handle_state_change(old_state, new_state, dogs, humans) ==
    LET timestamp == now
        event == SupervisionEvent(new_state, now, dogs, humans, None)
        triggered == _trigger_event(event)
    IN  [current_state |-> IF triggered.raised THEN current_state
                           ELSE new_state,
         unsupervised_start_time |-> start_time_after_change(new_state, timestamp),
         event_history |-> triggered.event_history,
         emitted |-> <<event>>,
         notified |-> IF triggered.raised THEN <<>>
                      ELSE << <<old_state, new_state>> >>,
         calls |-> triggered.calls,
         raised |-> triggered.raised]

\* Mutant of alert_due: the delay is not waited for.
alert_due_without_delay(duration_unsupervised) == current_state # ALERT

\* Mutant of alert_due: the state test inverted.
alert_due_only_in_alert(duration_unsupervised) ==
    /\ duration_unsupervised >= alert_delay_seconds
    /\ current_state = ALERT

\* Mutant of alert_due: the delay must be exceeded, not reached.
alert_due_after_delay(duration_unsupervised) ==
    /\ duration_unsupervised > alert_delay_seconds
    /\ current_state # ALERT

\* _check_alert_condition, lines 187-188: the test that fires the alert
alert_due(duration_unsupervised) ==
    /\ duration_unsupervised >= alert_delay_seconds
    /\ current_state # ALERT

\* DogSupervisor._check_alert_condition
_check_alert_condition(dogs, humans) ==
    IF unsupervised_start_time = None THEN NoEffect
    ELSE LET duration_unsupervised == now - unsupervised_start_time
             event == SupervisionEvent(ALERT, now, dogs, humans,
                                       duration_unsupervised)
             triggered == _trigger_event(event)
         IN  IF alert_due(duration_unsupervised)
             THEN [current_state |-> IF triggered.raised THEN current_state
                                     ELSE ALERT,
                   unsupervised_start_time |-> unsupervised_start_time,
                   event_history |-> triggered.event_history,
                   emitted |-> <<event>>,
                   notified |-> <<>>,
                   calls |-> triggered.calls,
                   raised |-> triggered.raised]
             ELSE NoEffect

\* Mutant of _check_supervision: the state change is handled in every
\* cycle, whether or not the state differs.
_check_supervision_always_changes(dogs, humans) ==
    LET is_unsupervised == is_dog_unsupervised(dogs, humans)
        new_state == _determine_state(is_unsupervised, dogs, humans)
    IN  _handle_state_change(current_state, new_state, dogs, humans)

\* DogSupervisor._check_supervision, lines 102-116: from the detector's
\* answer to the end of the cycle
_check_supervision(dogs, humans) ==
    LET is_unsupervised == is_dog_unsupervised(dogs, humans)
        new_state == _determine_state(is_unsupervised, dogs, humans)
    IN  IF new_state # current_state
        THEN _handle_state_change(current_state, new_state, dogs, humans)
        ELSE IF new_state = UNSUPERVISED
        THEN _check_alert_condition(dogs, humans)
        ELSE NoEffect


\* ---------------------------------------------------------- ActionManager
\* The names of the actions: SoundAlert and FileLogger.
ActionName == {"sound_alert", "file_logger"}

\* The names of all the actions of the application: VideoRecorder and
\* NotificationSender besides.
AppActionName == ActionName \cup {"video_recorder", "notification"}

\* ActionTrigger.__init__
ActionTrigger(name) ==
    [name |-> name, enabled |-> TRUE, last_triggered |-> None]

\* The event_data of test_action_triggers (its 5.5 s in whole seconds).
test_event_data ==
    [state |-> ALERT, dogs_detected |-> 1, humans_detected |-> 0,
     duration_unsupervised |-> 5, camera |-> None]

\* The AsyncCameraCapture object of the supervisor, as a reference.
supervisor_camera == 0

\* on_event, main.py lines 119-126: the event_data built from an event,
\* with the reference to the supervisor's camera
event_data_of(event) ==
    [state |-> event.state, dogs_detected |-> event.dogs_detected,
     humans_detected |-> event.humans_detected,
     duration_unsupervised |-> event.duration_unsupervised,
     camera |-> supervisor_camera]

\* No call of trigger_actions has been made.
NoBatch ==
    [status |-> "none", current_time |-> None, event_data |-> None,
     index |-> 0, log |-> <<>>]

\* No execution of the action object has completed.
NoAttempt == [last |-> "none", succeeded |-> FALSE]

\* One line of the report of a call: the action, what the loop decided for
\* it ("disabled", "cooldown" or "executed") and how its execution ended
\* ("success", "failed", "raised", "pending" while it runs, "none" if it
\* was not executed).
Entry(name, decision, outcome) ==
    [name |-> name, decision |-> decision, outcome |-> outcome]

\* Mutant of on_cooldown: one timestamp, the latest of any action, is
\* compared for every action.
on_cooldown_shared(times, name, current_time) ==
    \E other \in ActionName :
       /\ times[other] # None
       /\ current_time - times[other] < cooldown_seconds


\* Mutant of on_cooldown: an action whose execution is awaited by a call in
\* progress counts as on cooldown.
on_cooldown_or_executing(times, name, current_time) ==
    \/ /\ times[name] # None
       /\ current_time - times[name] < cooldown_seconds
    \/ \E b \in {batch, overlapping} :
          /\ b.status = "running"
          /\ actions[b.index].name = name
\* trigger_actions, lines 271-275: the cooldown test of one action
on_cooldown(times, name, current_time) ==
    /\ times[name] # None
    /\ current_time - times[name] < cooldown_seconds

\* Mutant of recorded_time: the timestamp is recorded for every attempt.
recorded_time_of_attempt(times, name, outcome, current_time) ==
    [times EXCEPT ![name] = current_time]

\* Mutant of recorded_time: no timestamp is recorded.
recorded_time_never(times, name, outcome, current_time) == times

\* trigger_actions, lines 279-285: last_trigger_time after an execution
recorded_time(times, name, outcome, current_time) ==
    IF outcome = "success" THEN [times EXCEPT ![name] = current_time]
    ELSE times

\* ActionTrigger.trigger, lines 18-25, up to the await of _execute: the
\* action object once its trigger has been called
trigger(action) == [action EXCEPT !.last_triggered = now]

\* Mutant of run_loop: a disabled action ends the loop (break in the place
\* of continue), so the actions after it are not reached.
RECURSIVE run_loop_ends_at_disabled(_, _, _)
run_loop_ends_at_disabled(acts, times, b) ==
    IF b.index > Len(acts)
    THEN [actions |-> acts, batch |-> [b EXCEPT !.status = "done"]]
    ELSE LET action == acts[b.index]
             skipped(decision) ==
                 [b EXCEPT !.index = @ + 1,
                           !.log = Append(@, Entry(action.name, decision,
                                                   "none"))]
         IN  IF ~action.enabled
             THEN [actions |-> acts,
                   batch |-> [skipped("disabled") EXCEPT !.status = "done"]]
             ELSE IF on_cooldown(times, action.name, b.current_time)
             THEN run_loop_ends_at_disabled(acts, times, skipped("cooldown"))
             ELSE [actions |-> [acts EXCEPT ![b.index] = trigger(action)],
                   batch |-> [b EXCEPT !.log = Append(@, Entry(action.name,
                                                               "executed",
                                                               "pending"))]]
\* trigger_actions, lines 266-279: the loop from the entry at b.index up to
\* the next await of an action's execution, or to the end of the call.
RECURSIVE run_loop(_, _, _)
run_loop(acts, times, b) ==
    IF b.index > Len(acts)
    THEN [actions |-> acts, batch |-> [b EXCEPT !.status = "done"]]
    ELSE LET action == acts[b.index]
             Skip(decision) ==
                 run_loop(acts, times,
                          [b EXCEPT !.index = @ + 1,
                                    !.log = Append(@, Entry(action.name,
                                                            decision,
                                                            "none"))])
         IN  IF ~action.enabled THEN Skip("disabled")
             ELSE IF on_cooldown(times, action.name, b.current_time)
             THEN Skip("cooldown")
             ELSE [actions |-> [acts EXCEPT ![b.index] = trigger(action)],
                   batch |-> [b EXCEPT !.log = Append(@, Entry(action.name,
                                                               "executed",
                                                               "pending"))]]

\* Mutant of after_execute: no try/except around the await, so an exception
\* of an action leaves trigger_actions.
after_execute_unguarded(outcome, acts, times, b) ==
    IF outcome = "raised"
    THEN [actions |-> acts, batch |-> [b EXCEPT !.status = "raised"]]
    ELSE run_loop(acts, times, b)

\* trigger_actions, lines 277-287: whatever the outcome of the execution,
\* the loop goes on with the next action.
after_execute(outcome, acts, times, b) == run_loop(acts, times, b)

\* ---------------------------------------------------------- VideoRecorder
\* The task created for _record_video: none yet ("none"), not yet run
\* ("created"), in its loop with the writer open ("writing"), or ended
\* ("completed", "failed", "cancelled"); the frames it has written and
\* whether it has released the writer.
RecordingTask(status, frames, released) ==
    [status |-> status, frames |-> frames, released |-> released]

\* VideoRecorder.__init__: recording_task = None
NoTask == RecordingTask("none", 0, FALSE)

\* A recording task that has not ended.
InProgress(task) == task.status \in {"created", "writing"}

\* Mutant of VideoRecorder_execute: _record_video is awaited in place, so
\* the execution returns when the recording is over.
VideoRecorder_execute_awaiting(recording, task, event_data) ==
    IF recording
    THEN [result |-> "failed", is_recording |-> recording,
          recording_task |-> task]
    ELSE IF event_data.camera = None
    THEN [result |-> "failed", is_recording |-> TRUE,
          recording_task |-> task]
    ELSE [result |-> "success", is_recording |-> FALSE,
          recording_task |-> RecordingTask("completed", MaxFrames, TRUE)]

\* Mutant of VideoRecorder_execute: is_recording is not looked at.
VideoRecorder_execute_unchecked(recording, task, event_data) ==
    IF event_data.camera = None
    THEN [result |-> "failed", is_recording |-> TRUE,
          recording_task |-> task]
    ELSE [result |-> "success", is_recording |-> TRUE,
          recording_task |-> RecordingTask("created", 0, FALSE)]

\* VideoRecorder._execute, lines 112-135.  It awaits nothing: the
\* recording is handed to a task of its own and True is returned at once.
VideoRecorder_execute(recording, task, event_data) ==
    IF recording
    THEN [result |-> "failed", is_recording |-> recording,
          recording_task |-> task]
    ELSE IF event_data.camera = None
    THEN [result |-> "failed", is_recording |-> TRUE,
          recording_task |-> task]
    ELSE [result |-> "success", is_recording |-> TRUE,
          recording_task |-> RecordingTask("created", 0, FALSE)]
\* get_current_status, lines 235-247, without camera_info
get_current_status ==
    [state |-> current_state,
     is_running |-> is_running,
     duration_unsupervised_seconds |->
        IF unsupervised_start_time # None
        THEN now - unsupervised_start_time
        ELSE None,
     alert_delay_seconds |-> alert_delay_seconds,
     last_event_count |-> Len(event_history)]


\* Python's seq[start:] for a list: a negative start counts from the end
\* (clipped at the first element), any other start from the front (clipped
\* at the length).  -0 is 0 and therefore counts from the front.
slice_from(seq, start) ==
    LET n == Len(seq)
        lo == IF start < 0
              THEN (IF n + start < 0 THEN 0 ELSE n + start)
              ELSE (IF start > n THEN n ELSE start)
    IN  SubSeq(seq, lo + 1, n)
\* get_recent_events, lines 249-250: return self.event_history[-limit:]
get_recent_events(limit) == slice_from(event_history, 0 - limit)
\* The threads that call get_frame, and the capture thread, as holders of
\* frame_lock.
Readers == 1..NumReaders
CaptureThread == 0

\* --------------------------------------------------------- observations
\* The sample sequences of the two scenarios, as (dogs, humans) pairs.
ScenarioA == << <<0, 0>>, <<1, 0>>, <<1, 0>>, <<1, 0>> >>
ScenarioB == << <<1, 1>>, <<1, 0>>, <<1, 1>> >>

\* Progress along a scenario after one more evaluated sample: the number of
\* samples matched so far, or None once the run has left the scenario.
\* in_time says whether the sample came at the scenario's sampling instant.
Follow(script, matched, dogs, humans, in_time) ==
    IF /\ matched # None
       /\ matched < Len(script)
       /\ script[matched + 1] = <<dogs, humans>>
       /\ in_time
    THEN matched + 1
    ELSE None

\* Number of Alert events among the events of a sequence.
AlertCount(events) ==
    Cardinality({i \in 1..Len(events) : events[i].state = ALERT})

\* No start() or stop() call has returned.
NoCall == [op |-> "none", result |-> "none"]

\* ------------------------------------------------------------------ Init
\* DogSupervisor.__init__, for a history of the given capacity and an alert
\* delay among the given ones, and ActionManager.__init__
Constructed(capacity, delays) ==
    /\ current_state = IDLE
    /\ unsupervised_start_time = None
    /\ event_history = <<>>
    /\ alert_delay_seconds \in delays
    /\ max_history_size = capacity
    /\ event_handlers = <<>>
    /\ is_running = FALSE
    /\ pc = "off"
    /\ now = 0
    /\ cycle = FreshCycle
    /\ span_alerts = 0
    /\ scenario = [a |-> 0, a_at |-> None, b |-> 0]
    /\ actions = <<>>
    /\ last_trigger_time = [name \in AppActionName |-> None]
    /\ cooldown_seconds = 60
    /\ batch = NoBatch
    /\ previous = NoBatch
    /\ attempts = [name \in AppActionName |-> NoAttempt]
    /\ overlapping = NoBatch
    /\ is_recording = FALSE
    /\ recording_task = NoTask
    /\ application = "serving"
    /\ camera_running = FALSE
    /\ start_calls = 0
    /\ stop_pc = "none"
    /\ orphan_pc = "none"
    /\ returned = NoCall
    /\ settled = FALSE
    /\ ever_started = FALSE
    /\ frame_lock = None
    /\ current_frame = None
    /\ heap = <<>>
    /\ capture_pc = "read"
    /\ capture_frame = None
    /\ captured = 0
    /\ reader_pc = [r \in Readers |-> "idle"]
    /\ reader_src = [r \in Readers |-> None]
    /\ reader_pos = [r \in Readers |-> 0]
    /\ reader_result = [r \in Readers |-> None]

Init == Constructed(HistorySize, 0..MaxDelay)

\* The supervisors whose event dispatch is explored.  The dispatch is
\* explored at one instant of the clock, where a dog alone raises the Alert
\* only if the delay is 0.
DispatchInit == \E capacity \in 1..MaxHistorySize : Constructed(capacity, {0})

\* --------------------------------------------------------------- actions
\* DogSupervisor.start: a no-op when already running; raises, changing
\* nothing, when the camera cannot be started; otherwise creates the task.
start ==
    /\ ~is_running
    /\ \E camera_started \in BOOLEAN :
          IF camera_started
          THEN /\ is_running' = TRUE
               /\ pc' = "sleep"
          ELSE UNCHANGED <<is_running, pc>>
    /\ UNCHANGED <<current_state, unsupervised_start_time, event_history,
                   alert_delay_seconds, registry, capture, lifecycle, manager,
                   now, cycle, span_alerts, scenario>>

\* Mutant of stop: the supervisor is reset to its constructed state.
stop_resetting ==
    /\ is_running' = FALSE
    /\ pc' = "off"
    /\ current_state' = IDLE
    /\ unsupervised_start_time' = None
    /\ event_history' = <<>>
    /\ UNCHANGED <<alert_delay_seconds, registry, capture, lifecycle, manager,
                   now, cycle, span_alerts, scenario>>

\* DogSupervisor.stop: clears the flag and cancels the monitor task, which
\* is suspended in one of its awaits.
stop ==
    /\ is_running' = FALSE
    /\ pc' = "off"
    /\ UNCHANGED <<current_state, unsupervised_start_time, event_history,
                   alert_delay_seconds, registry, capture, lifecycle, manager,
                   now, cycle, span_alerts, scenario>>

\* Mutant of start_call: no test of is_running, so a call on a running
\* supervisor starts the camera and creates a monitor task again.
start_call_unchecked ==
    /\ start_calls < MaxStartCalls
    /\ orphan_pc = "none"
    /\ start_calls' = start_calls + 1
    /\ settled' = FALSE
    /\ UNCHANGED <<current_state, unsupervised_start_time, event_history,
                   alert_delay_seconds, registry, capture, manager,
                   is_running, pc, now, cycle, span_alerts, scenario,
                   camera_running, stop_pc, orphan_pc, returned,
                   ever_started>>

\* DogSupervisor.start is called, possibly while other calls of start()
\* or stop() are suspended; lines 56-60, up to its return when the
\* supervisor is running or else to the await of camera.start().  A call
\* that passes the test is explored only while no monitor task has been
\* orphaned.
start_call ==
    /\ IF is_running
       THEN /\ returned' = [op |-> "start", result |-> "noop"]
            /\ UNCHANGED <<start_calls, settled>>
       ELSE /\ start_calls < MaxStartCalls
            /\ orphan_pc = "none"
            /\ start_calls' = start_calls + 1
            /\ settled' = FALSE
            /\ UNCHANGED returned
    /\ UNCHANGED <<current_state, unsupervised_start_time, event_history,
                   alert_delay_seconds, registry, capture, manager,
                   is_running, pc, now, cycle, span_alerts, scenario,
                   camera_running, stop_pc, orphan_pc, ever_started>>

\* Mutant of camera_start_returns: the result of camera.start() is not
\* looked at.
camera_start_returns_unchecked ==
    /\ start_calls > 0
    /\ start_calls' = start_calls - 1
    /\ \E camera_started \in BOOLEAN :
          /\ camera_running => camera_started
          /\ camera_running' = camera_started
          /\ is_running' = TRUE
          /\ pc' = "sleep"
          /\ orphan_pc' = IF pc # "off" THEN pc ELSE orphan_pc
          /\ returned' = [op |-> "start",
                          result |-> IF camera_started THEN "started"
                                     ELSE "raised"]
          /\ ever_started' = (ever_started \/ camera_started)
    /\ UNCHANGED <<current_state, unsupervised_start_time, event_history,
                   alert_delay_seconds, registry, capture, manager, now,
                   cycle, span_alerts, scenario, stop_pc, settled>>

\* DogSupervisor.start, lines 60-64: the await of camera.start() of one of
\* the suspended calls returns.  CameraCapture.start returns True when the
\* camera runs already and else whether it could be opened.  On False the
\* call raises RuntimeError; on True it sets is_running and stores a new
\* monitor task in self.monitor_task, whatever task was there before.
camera_start_returns ==
    /\ start_calls > 0
    /\ start_calls' = start_calls - 1
    /\ \E camera_started \in BOOLEAN :
          /\ camera_running => camera_started
          /\ IF camera_started
             THEN /\ camera_running' = TRUE
                  /\ is_running' = TRUE
                  /\ pc' = "sleep"
                  /\ orphan_pc' = IF pc # "off" THEN pc ELSE orphan_pc
                  /\ returned' = [op |-> "start", result |-> "started"]
                  /\ ever_started' = TRUE
             ELSE /\ returned' = [op |-> "start", result |-> "raised"]
                  /\ UNCHANGED <<camera_running, is_running, pc, orphan_pc,
                                 ever_started>>
    /\ UNCHANGED <<current_state, unsupervised_start_time, event_history,
                   alert_delay_seconds, registry, capture, manager, now,
                   cycle, span_alerts, scenario, stop_pc, settled>>

\* DogSupervisor.stop is called, lines 72-79: the flag is cleared and the
\* task of self.monitor_task is cancelled in the await it is suspended in;
\* the call then awaits camera.stop().
stop_call ==
    /\ stop_pc = "none"
    /\ is_running' = FALSE
    /\ pc' = "off"
    /\ stop_pc' = "camera"
    /\ settled' = (start_calls = 0)
    /\ UNCHANGED <<current_state, unsupervised_start_time, event_history,
                   alert_delay_seconds, registry, capture, manager, now,
                   cycle, span_alerts, scenario, camera_running, start_calls,
                   orphan_pc, returned, ever_started>>

\* DogSupervisor.stop, lines 81-82: camera.stop() has stopped the camera
\* and the call returns.
stop_returns ==
    /\ stop_pc = "camera"
    /\ camera_running' = FALSE
    /\ stop_pc' = "none"
    /\ returned' = [op |-> "stop", result |-> "returned"]
    /\ UNCHANGED <<current_state, unsupervised_start_time, event_history,
                   alert_delay_seconds, registry, capture, manager,
                   is_running, pc, now, cycle, span_alerts, scenario,
                   start_calls, orphan_pc, settled, ever_started>>

\* _monitor_loop in the orphaned task: its sleep ends and the loop test
\* passes, or fails and ends the task.
orphan_monitor_loop ==
    /\ orphan_pc = "sleep"
    /\ orphan_pc' = IF is_running THEN "fetch" ELSE "none"
    /\ UNCHANGED <<current_state, unsupervised_start_time, event_history,
                   alert_delay_seconds, registry, capture, manager,
                   is_running, pc, now, cycle, span_alerts, scenario,
                   camera_running, start_calls, stop_pc, returned, settled,
                   ever_started>>

\* _check_supervision in the orphaned task: the awaited camera.get_frame()
\* completes with a frame, with None or with an exception.
orphan_get_frame ==
    /\ orphan_pc = "fetch"
    /\ \E frame \in {"got", "none", "raised"} :
          orphan_pc' = IF frame = "got" THEN "detect" ELSE "sleep"
    /\ UNCHANGED <<current_state, unsupervised_start_time, event_history,
                   alert_delay_seconds, registry, capture, manager,
                   is_running, pc, now, cycle, span_alerts, scenario,
                   camera_running, start_calls, stop_pc, returned, settled,
                   ever_started>>

\* _check_supervision in the orphaned task: the detector returns and the
\* rest of the cycle runs.
orphan_detect ==
    /\ orphan_pc = "detect"
    /\ \E dogs \in 0..MaxCount, humans \in 0..MaxCount :
          LET effect == _check_supervision(dogs, humans)
          IN  /\ current_state' = effect.current_state
              /\ unsupervised_start_time' = effect.unsupervised_start_time
              /\ event_history' = effect.event_history
    /\ orphan_pc' = "sleep"
    /\ UNCHANGED <<alert_delay_seconds, registry, capture, manager,
                   is_running, pc, now, cycle, span_alerts, scenario,
                   camera_running, start_calls, stop_pc, returned, settled,
                   ever_started>>
\* _monitor_loop: the task is scheduled (or its sleep ends), the loop test
\* passes and _check_supervision calls camera.get_frame().
_monitor_loop ==
    /\ pc = "sleep"
    /\ is_running
    /\ pc' = "fetch"
    /\ cycle' = FreshCycle
    /\ UNCHANGED <<current_state, unsupervised_start_time, event_history,
                   alert_delay_seconds, registry, capture, lifecycle, manager,
                   is_running, now, span_alerts, scenario>>

\* Mutant of no_frame: a missing frame is evaluated as a frame with no
\* detections.
no_frame_evaluated_as_empty ==
    LET effect == _check_supervision(0, 0)
    IN  /\ current_state' = effect.current_state
        /\ unsupervised_start_time' = effect.unsupervised_start_time
        /\ event_history' = effect.event_history
        /\ cycle' = [cycle EXCEPT !.frame = "none",
                                  !.emitted = effect.emitted,
                                  !.notified = effect.notified,
                                  !.calls = effect.calls]
        /\ pc' = "sleep"
        /\ UNCHANGED <<alert_delay_seconds, registry, capture, lifecycle,
                       manager, is_running, now, span_alerts, scenario>>

\* _check_supervision, lines 98-100, when get_frame returned None: return,
\* and the loop goes to sleep.
no_frame ==
    /\ cycle' = [cycle EXCEPT !.frame = "none"]
    /\ pc' = "sleep"
    /\ UNCHANGED <<current_state, unsupervised_start_time, event_history,
                   alert_delay_seconds, registry, capture, lifecycle, manager,
                   is_running, now, span_alerts, scenario>>

\* _check_supervision, lines 98-104, when get_frame returned a frame: the
\* detector is submitted to the executor.
got_frame ==
    /\ cycle' = [cycle EXCEPT !.frame = "got", !.detected = TRUE]
    /\ pc' = "detect"
    /\ UNCHANGED <<current_state, unsupervised_start_time, event_history,
                   alert_delay_seconds, registry, capture, lifecycle, manager,
                   is_running, now, span_alerts, scenario>>

\* Mutant of _monitor_loop_except: the exception is not caught and ends the
\* monitor task.
_monitor_loop_uncaught ==
    /\ cycle' = [cycle EXCEPT !.raised = TRUE]
    /\ pc' = "off"
    /\ UNCHANGED <<current_state, unsupervised_start_time, event_history,
                   alert_delay_seconds, registry, capture, lifecycle, manager,
                   is_running, now, span_alerts, scenario>>

\* _monitor_loop, lines 93-95: an exception raised inside _check_supervision
\* is caught, reported, and the loop sleeps one second before its next test.
_monitor_loop_except ==
    /\ cycle' = [cycle EXCEPT !.raised = TRUE]
    /\ pc' = "sleep"
    /\ UNCHANGED <<current_state, unsupervised_start_time, event_history,
                   alert_delay_seconds, registry, capture, lifecycle, manager,
                   is_running, now, span_alerts, scenario>>

\* The awaited camera.get_frame() completes: a copy of the latest frame,
\* None, or an exception.
get_frame ==
    /\ pc = "fetch"
    /\ \/ no_frame
       \/ got_frame
       \/ _monitor_loop_except

\* The awaited detector call raises instead of returning the two lists.
detect_raises ==
    /\ pc = "detect"
    /\ _monitor_loop_except

\* The detector returns the two lists; the rest of _check_supervision runs
\* to the end of the cycle and the loop goes to sleep.
detect ==
    /\ pc = "detect"
    /\ \E dogs \in 0..MaxCount, humans \in 0..MaxCount :
          LET effect == _check_supervision(dogs, humans)
              alone == dogs > 0 /\ humans = 0
              alerts == span_alerts + AlertCount(effect.emitted)
          IN  /\ current_state' = effect.current_state
              /\ unsupervised_start_time' = effect.unsupervised_start_time
              /\ event_history' = effect.event_history
              /\ cycle' = [cycle EXCEPT
                              !.evaluated = TRUE,
                              !.dogs = dogs,
                              !.humans = humans,
                              !.raised = effect.raised,
                              !.emitted = effect.emitted,
                              !.notified = effect.notified,
                              !.calls = effect.calls]
              /\ span_alerts' = IF ~alone THEN 0
                                ELSE IF alerts > 1 THEN 2 ELSE alerts
              /\ scenario' =
                    LET a == Follow(ScenarioA, scenario.a, dogs, humans,
                                    scenario.a = 0 \/ now = scenario.a_at + 1)
                    IN  [a |-> a,
                         a_at |-> IF a = None THEN None ELSE now,
                         b |-> Follow(ScenarioB, scenario.b, dogs, humans,
                                      TRUE)]
    /\ pc' = "sleep"
    /\ UNCHANGED <<alert_delay_seconds, registry, capture, lifecycle, manager,
                   is_running, now>>

\* One second of wall-clock time passes.
tick ==
    /\ now < MaxTime
    /\ now' = now + 1
    /\ UNCHANGED <<current_state, unsupervised_start_time, event_history,
                   alert_delay_seconds, registry, capture, lifecycle, manager,
                   is_running, pc, cycle, span_alerts, scenario>>

\* DogSupervisor.add_event_handler
add_event_handler ==
    /\ Len(event_handlers) < MaxHandlers
    /\ \E handler \in EventHandler :
          event_handlers' = Append(event_handlers, handler)
    /\ UNCHANGED <<current_state, unsupervised_start_time, event_history,
                   alert_delay_seconds, max_history_size, manager, lifecycle,
                   capture, is_running, pc, now, cycle, span_alerts,
                   scenario>>

\* list.remove: the list without the first entry equal to handler
Removed(handlers, handler) ==
    LET first == CHOOSE i \in 1..Len(handlers) :
                     /\ handlers[i] = handler
                     /\ \A j \in 1..(i - 1) : handlers[j] # handler
    IN  SubSeq(handlers, 1, first - 1)
            \o SubSeq(handlers, first + 1, Len(handlers))

\* DogSupervisor.remove_event_handler, for a registered handler
remove_event_handler ==
    /\ \E handler \in EventHandler :
          /\ \E i \in 1..Len(event_handlers) : event_handlers[i] = handler
          /\ event_handlers' = Removed(event_handlers, handler)
    /\ UNCHANGED <<current_state, unsupervised_start_time, event_history,
                   alert_delay_seconds, max_history_size, manager, lifecycle,
                   capture, is_running, pc, now, cycle, span_alerts,
                   scenario>>

\* ActionManager.add_action: a new action object under its name, in the
\* place of an action already registered under that name or else at the
\* end.  Actions are registered while no call of trigger_actions is
\* suspended.
add_action ==
    /\ batch.status # "running"
    /\ overlapping.status # "running"
    /\ \E name \in ActionName :
          /\ actions' =
                IF \E i \in 1..Len(actions) : actions[i].name = name
                THEN [i \in 1..Len(actions) |->
                         IF actions[i].name = name THEN ActionTrigger(name)
                         ELSE actions[i]]
                ELSE Append(actions, ActionTrigger(name))
          /\ attempts' = [attempts EXCEPT ![name] = NoAttempt]
    /\ UNCHANGED <<current_state, unsupervised_start_time, event_history,
                   alert_delay_seconds, registry, capture, lifecycle,
                   is_running, pc, now, cycle, span_alerts, scenario,
                   last_trigger_time, cooldown_seconds, recorder, overlapping,
                   batch, previous>>

\* ActionManager.trigger_actions is called, one call after the other: the
\* call reads the clock and runs to its first await or to its end.
trigger_actions ==
    /\ batch.status # "running"
    /\ LET begun == run_loop(actions, last_trigger_time,
                             [status |-> "running", current_time |-> now,
                              event_data |-> test_event_data, index |-> 1,
                              log |-> <<>>])
       IN  /\ actions' = begun.actions
           /\ batch' = begun.batch
    /\ previous' = batch
    /\ UNCHANGED <<current_state, unsupervised_start_time, event_history,
                   alert_delay_seconds, registry, capture, lifecycle,
                   is_running, pc, now, cycle, span_alerts, scenario,
                   last_trigger_time, cooldown_seconds, recorder, overlapping,
                   attempts>>

\* The awaited _execute of the action at batch.index (any action but the
\* VideoRecorder) returns True or False or raises; trigger_actions runs on
\* to its next await or to its end.
execute ==
    /\ batch.status = "running"
    /\ actions[batch.index].name # "video_recorder"
    /\ \E outcome \in {"success", "failed", "raised"} :
          LET name == actions[batch.index].name
              times == recorded_time(last_trigger_time, name, outcome,
                                     batch.current_time)
              reported == [batch EXCEPT !.log[Len(batch.log)].outcome = outcome,
                                        !.index = @ + 1]
              after == after_execute(outcome, actions, times, reported)
          IN  /\ last_trigger_time' = times
              /\ actions' = after.actions
              /\ batch' = after.batch
              /\ attempts' =
                    [attempts EXCEPT
                        ![name] = [last |-> outcome,
                                   succeeded |-> @.succeeded
                                                   \/ outcome = "success"]]
    /\ UNCHANGED <<current_state, unsupervised_start_time, event_history,
                   alert_delay_seconds, registry, capture, lifecycle,
                   is_running, pc, now, cycle, span_alerts, scenario,
                   cooldown_seconds, recorder, overlapping, previous>>


\* ActionManager.trigger_actions is called while the call of batch is
\* suspended in the execution of an action: nothing keeps the second call
\* from running its loop over the same actions and timestamps.
trigger_actions_overlapping ==
    /\ batch.status = "running"
    /\ overlapping.status # "running"
    /\ LET begun == run_loop(actions, last_trigger_time,
                             [status |-> "running", current_time |-> now,
                              event_data |-> test_event_data, index |-> 1,
                              log |-> <<>>])
       IN  /\ actions' = begun.actions
           /\ overlapping' = begun.batch
    /\ UNCHANGED <<current_state, unsupervised_start_time, event_history,
                   alert_delay_seconds, registry, capture, lifecycle,
                   is_running, pc, now, cycle, span_alerts, scenario,
                   last_trigger_time, cooldown_seconds, recorder, batch,
                   previous, attempts>>

\* The awaited _execute of the action at overlapping.index returns or
\* raises; the overlapping call runs on to its next await or to its end.
execute_overlapping ==
    /\ overlapping.status = "running"
    /\ \E outcome \in {"success", "failed", "raised"} :
          LET name == actions[overlapping.index].name
              times == recorded_time(last_trigger_time, name, outcome,
                                     overlapping.current_time)
              reported == [overlapping EXCEPT
                              !.log[Len(overlapping.log)].outcome = outcome,
                              !.index = @ + 1]
              after == after_execute(outcome, actions, times, reported)
          IN  /\ last_trigger_time' = times
              /\ actions' = after.actions
              /\ overlapping' = after.batch
              /\ attempts' =
                    [attempts EXCEPT
                        ![name] = [last |-> outcome,
                                   succeeded |-> @.succeeded
                                                   \/ outcome = "success"]]
    /\ UNCHANGED <<current_state, unsupervised_start_time, event_history,
                   alert_delay_seconds, registry, capture, lifecycle,
                   is_running, pc, now, cycle, span_alerts, scenario,
                   cooldown_seconds, recorder, batch, previous>>
\* The registered actions with the enabled flag of the action of the given
\* name set; unchanged if no action has the name.
with_enabled(acts, name, value) ==
    [i \in 1..Len(acts) |->
        IF acts[i].name = name THEN [acts[i] EXCEPT !.enabled = value]
        ELSE acts[i]]

\* ActionManager.enable_action, at any time, also while a call of
\* trigger_actions is suspended in an await.
enable_action ==
    /\ \E name \in ActionName : actions' = with_enabled(actions, name, TRUE)
    /\ UNCHANGED <<current_state, unsupervised_start_time, event_history,
                   alert_delay_seconds, registry, capture, lifecycle,
                   is_running, pc, now, cycle, span_alerts, scenario,
                   last_trigger_time, cooldown_seconds, recorder, overlapping,
                   batch, previous, attempts>>

\* ActionManager.disable_action
disable_action ==
    /\ \E name \in ActionName : actions' = with_enabled(actions, name, FALSE)
    /\ UNCHANGED <<current_state, unsupervised_start_time, event_history,
                   alert_delay_seconds, registry, capture, lifecycle,
                   is_running, pc, now, cycle, span_alerts, scenario,
                   last_trigger_time, cooldown_seconds, recorder, overlapping,
                   batch, previous, attempts>>
\* DoodieDutyApp._setup_actions: the actions the configuration enables, in
\* the order of the code.
_setup_actions ==
    /\ actions = <<>>
    /\ batch.status = "none"
    /\ application = "serving"
    /\ \E enable_sound_alert, enable_file_logging, enable_video_recording,
          notification_webhook \in BOOLEAN :
          LET configured(enabled, name) ==
                  IF enabled THEN <<ActionTrigger(name)>> ELSE <<>>
          IN  actions' =
                 configured(enable_sound_alert, "sound_alert")
                 \o configured(enable_file_logging, "file_logger")
                 \o configured(enable_video_recording, "video_recorder")
                 \o configured(notification_webhook, "notification")
    /\ UNCHANGED <<current_state, unsupervised_start_time, event_history,
                   alert_delay_seconds, registry, capture, lifecycle,
                   is_running, pc, now, cycle, span_alerts, scenario,
                   last_trigger_time, cooldown_seconds, batch, previous,
                   attempts, overlapping, recorder>>

\* ActionManager.trigger_actions called with the event_data of an Alert
\* event, which carries the camera (main.py lines 119-129 and
\* test_logging.py lines 55-63).
trigger_actions_for_alert ==
    /\ batch.status # "running"
    /\ LET begun == run_loop(actions, last_trigger_time,
                             [status |-> "running", current_time |-> now,
                              event_data |->
                                 event_data_of(
                                    SupervisionEvent(ALERT, now, 1, 0, 0)),
                              index |-> 1, log |-> <<>>])
       IN  /\ actions' = begun.actions
           /\ batch' = begun.batch
    /\ previous' = batch
    /\ UNCHANGED <<current_state, unsupervised_start_time, event_history,
                   alert_delay_seconds, registry, capture, lifecycle,
                   is_running, pc, now, cycle, span_alerts, scenario,
                   last_trigger_time, cooldown_seconds, attempts, overlapping,
                   recorder>>

\* The awaited trigger of the VideoRecorder at batch.index runs _execute to
\* its return; trigger_actions runs on to its next await or to its end.
execute_video_recorder ==
    /\ batch.status = "running"
    /\ actions[batch.index].name = "video_recorder"
    /\ LET executed == VideoRecorder_execute(is_recording, recording_task,
                                             batch.event_data)
           outcome == executed.result
           name == actions[batch.index].name
           times == recorded_time(last_trigger_time, name, outcome,
                                  batch.current_time)
           reported == [batch EXCEPT !.log[Len(batch.log)].outcome = outcome,
                                     !.index = @ + 1]
           after == after_execute(outcome, actions, times, reported)
       IN  /\ is_recording' = executed.is_recording
           /\ recording_task' = executed.recording_task
           /\ last_trigger_time' = times
           /\ actions' = after.actions
           /\ batch' = after.batch
           /\ attempts' =
                 [attempts EXCEPT
                     ![name] = [last |-> outcome,
                                succeeded |-> @.succeeded
                                                \/ outcome = "success"]]
    /\ UNCHANGED <<current_state, unsupervised_start_time, event_history,
                   alert_delay_seconds, registry, capture, lifecycle,
                   is_running, pc, now, cycle, span_alerts, scenario,
                   cooldown_seconds, previous, overlapping, application>>

\* _record_video, lines 141-177: the task runs for the first time and
\* opens the writer with the first codec that works, or returns if none
\* does (the finally clause resets is_recording).
_record_video ==
    /\ application # "closed"
    /\ recording_task.status = "created"
    /\ \E opened \in BOOLEAN :
          IF opened
          THEN /\ recording_task' = [recording_task EXCEPT
                                        !.status = "writing"]
               /\ UNCHANGED is_recording
          ELSE /\ recording_task' = [recording_task EXCEPT
                                        !.status = "failed"]
               /\ is_recording' = FALSE
    /\ UNCHANGED <<current_state, unsupervised_start_time, event_history,
                   alert_delay_seconds, registry, capture, lifecycle,
                   is_running, pc, now, cycle, span_alerts, scenario, actions,
                   last_trigger_time, cooldown_seconds, batch, previous,
                   attempts, overlapping, application>>

\* _record_video, lines 179-186: one turn of the loop, before the duration
\* is over: a frame is written and the task sleeps.
record_frame ==
    /\ application # "closed"
    /\ recording_task.status = "writing"
    /\ recording_task.frames < MaxFrames
    /\ recording_task' = [recording_task EXCEPT !.frames = @ + 1]
    /\ UNCHANGED <<current_state, unsupervised_start_time, event_history,
                   alert_delay_seconds, registry, capture, lifecycle,
                   is_running, pc, now, cycle, span_alerts, scenario, actions,
                   last_trigger_time, cooldown_seconds, batch, previous,
                   attempts, overlapping, is_recording, application>>

\* _record_video, lines 179-198: the duration is over, the writer is
\* released and the finally clause resets is_recording.
recording_completes ==
    /\ application # "closed"
    /\ recording_task.status = "writing"
    /\ recording_task' = [recording_task EXCEPT !.status = "completed",
                                                !.released = TRUE]
    /\ is_recording' = FALSE
    /\ UNCHANGED <<current_state, unsupervised_start_time, event_history,
                   alert_delay_seconds, registry, capture, lifecycle,
                   is_running, pc, now, cycle, span_alerts, scenario, actions,
                   last_trigger_time, cooldown_seconds, batch, previous,
                   attempts, overlapping, application>>

\* _record_video, lines 193-198: an exception in the loop is caught and
\* printed; the finally clause resets is_recording.
recording_raises ==
    /\ application # "closed"
    /\ recording_task.status = "writing"
    /\ recording_task' = [recording_task EXCEPT !.status = "failed"]
    /\ is_recording' = FALSE
    /\ UNCHANGED <<current_state, unsupervised_start_time, event_history,
                   alert_delay_seconds, registry, capture, lifecycle,
                   is_running, pc, now, cycle, span_alerts, scenario, actions,
                   last_trigger_time, cooldown_seconds, batch, previous,
                   attempts, overlapping, application>>

\* DoodieDutyApp.cleanup: the supervisor is stopped and old database
\* events are deleted.
cleanup ==
    /\ application = "serving"
    /\ application' = "cleaned_up"
    /\ is_running' = FALSE
    /\ pc' = "off"
    /\ UNCHANGED <<current_state, unsupervised_start_time, event_history,
                   alert_delay_seconds, registry, capture, lifecycle, now,
                   cycle, span_alerts, scenario, actions, last_trigger_time,
                   cooldown_seconds, batch, previous, attempts, overlapping,
                   is_recording, recording_task>>

\* main() has returned and asyncio.run closes the event loop, cancelling
\* the tasks that are left: a recording task suspended in its loop leaves
\* through its finally clause without releasing the writer; one that never
\* ran is dropped with is_recording still set.
event_loop_closes ==
    /\ application = "cleaned_up"
    /\ application' = "closed"
    /\ IF InProgress(recording_task)
       THEN /\ recording_task' = [recording_task EXCEPT
                                     !.status = "cancelled"]
            /\ is_recording' = IF recording_task.status = "writing"
                               THEN FALSE
                               ELSE is_recording
       ELSE UNCHANGED <<is_recording, recording_task>>
    /\ UNCHANGED <<current_state, unsupervised_start_time, event_history,
                   alert_delay_seconds, registry, capture, lifecycle,
                   is_running, pc, now, cycle, span_alerts, scenario, actions,
                   last_trigger_time, cooldown_seconds, batch, previous,
                   attempts, overlapping>>
\* ActionClockStep seconds of wall-clock time pass.
wait ==
    /\ now + ActionClockStep <= MaxActionTime
    /\ now' = now + ActionClockStep
    /\ UNCHANGED <<current_state, unsupervised_start_time, event_history,
                   alert_delay_seconds, registry, capture, lifecycle,
                   is_running, pc, cycle, span_alerts, scenario, manager>>

\* A whole cooldown of wall-clock time passes.
wait_cooldown ==
    /\ now + cooldown_seconds <= MaxActionTime
    /\ now' = now + cooldown_seconds
    /\ UNCHANGED <<current_state, unsupervised_start_time, event_history,
                   alert_delay_seconds, registry, capture, lifecycle,
                   is_running, pc, cycle, span_alerts, scenario, manager>>

\* ---------------------------------------------------------- CameraCapture
\* The array cap.read() returns for the n-th image: every cell holds n.
Image(n) == [i \in 1..FrameCells |-> n]
\* A newly allocated array that nothing was copied to yet.
Blank == [i \in 1..FrameCells |-> 0]

reader == <<reader_pc, reader_src, reader_pos, reader_result>>
supervision == <<current_state, unsupervised_start_time, event_history,
                 alert_delay_seconds, registry, is_running, pc, now, cycle,
                 span_alerts, scenario, manager, lifecycle>>

\* _capture_loop, line 60: ret, frame = self.cap.read(); a failed read
\* (lines 61-64) starts the turn again.
cap_read ==
    /\ capture_pc = "read"
    /\ captured < MaxCaptured
    /\ Len(heap) < MaxBuffers
    /\ \E ret \in BOOLEAN :
          IF ret
          THEN /\ captured' = captured + 1
               /\ heap' = Append(heap, Image(captured + 1))
               /\ capture_frame' = Len(heap) + 1
               /\ capture_pc' = "acquire"
          ELSE UNCHANGED <<captured, heap, capture_frame, capture_pc>>
    /\ UNCHANGED <<frame_lock, current_frame, reader, supervision>>

\* _capture_loop, line 66: with self.frame_lock, which blocks while another
\* thread holds the lock.
capture_acquire ==
    /\ capture_pc = "acquire"
    /\ frame_lock = None
    /\ frame_lock' = CaptureThread
    /\ capture_pc' = "write"
    /\ UNCHANGED <<current_frame, heap, capture_frame, captured, reader,
                   supervision>>

\* _capture_loop, line 67 and the end of the with block: the slot is bound
\* to the array just read and the lock is released.
capture_write ==
    /\ capture_pc = "write"
    /\ current_frame' = capture_frame
    /\ frame_lock' = None
    /\ capture_pc' = "publish"
    /\ UNCHANGED <<heap, capture_frame, captured, reader, supervision>>

\* _capture_loop, lines 69-81: the frame is offered to the queue and copies
\* of it to the callbacks; none of this writes to the array or the slot.
capture_publish ==
    /\ capture_pc = "publish"
    /\ capture_pc' = "read"
    /\ UNCHANGED <<frame_lock, current_frame, heap, capture_frame, captured,
                   reader, supervision>>

\* Mutant of get_frame_acquire: the call enters without holding the lock.
get_frame_unlocked(r) ==
    /\ reader_pc[r] = "idle"
    /\ Len(heap) < MaxBuffers
    /\ reader_pc' = [reader_pc EXCEPT ![r] = "locked"]
    /\ UNCHANGED <<frame_lock, current_frame, heap, capture_pc, capture_frame,
                   captured, reader_src, reader_pos, reader_result,
                   supervision>>

\* get_frame, line 84: with self.frame_lock, which blocks while another
\* thread holds the lock.
get_frame_acquire(r) ==
    /\ reader_pc[r] = "idle"
    /\ Len(heap) < MaxBuffers
    /\ frame_lock = None
    /\ frame_lock' = r
    /\ reader_pc' = [reader_pc EXCEPT ![r] = "locked"]
    /\ UNCHANGED <<current_frame, heap, capture_pc, capture_frame, captured,
                   reader_src, reader_pos, reader_result, supervision>>

\* get_frame, lines 85-87: the slot is read once; when it holds an array,
\* copy() allocates a new array, otherwise the call leaves the with block
\* and returns None.
get_frame_check(r) ==
    /\ reader_pc[r] = "locked"
    /\ reader_src' = [reader_src EXCEPT ![r] = current_frame]
    /\ IF current_frame # None
       THEN /\ heap' = Append(heap, Blank)
            /\ reader_result' = [reader_result EXCEPT ![r] = Len(heap) + 1]
            /\ reader_pos' = [reader_pos EXCEPT ![r] = 0]
            /\ reader_pc' = [reader_pc EXCEPT ![r] = "copy"]
            /\ UNCHANGED frame_lock
       ELSE /\ reader_result' = [reader_result EXCEPT ![r] = None]
            /\ reader_pc' = [reader_pc EXCEPT ![r] = "returned"]
            /\ frame_lock' = IF frame_lock = r THEN None ELSE frame_lock
            /\ UNCHANGED <<heap, reader_pos>>
    /\ UNCHANGED <<current_frame, capture_pc, capture_frame, captured,
                   supervision>>

\* get_frame, line 86: copy() copies the array the call read from the
\* slot, one cell at a time.
get_frame_copy(r) ==
    /\ reader_pc[r] = "copy"
    /\ reader_pos[r] < FrameCells
    /\ LET i == reader_pos[r] + 1
       IN  /\ heap' = [heap EXCEPT ![reader_result[r]][i] =
                                        heap[reader_src[r]][i]]
           /\ reader_pos' = [reader_pos EXCEPT ![r] = i]
    /\ UNCHANGED <<frame_lock, current_frame, capture_pc, capture_frame,
                   captured, reader_pc, reader_src, reader_result,
                   supervision>>

\* get_frame, line 86: return of the copy, which leaves the with block and
\* releases the lock.
get_frame_return(r) ==
    /\ reader_pc[r] = "copy"
    /\ reader_pos[r] = FrameCells
    /\ frame_lock' = IF frame_lock = r THEN None ELSE frame_lock
    /\ reader_pc' = [reader_pc EXCEPT ![r] = "returned"]
    /\ UNCHANGED <<current_frame, heap, capture_pc, capture_frame, captured,
                   reader_src, reader_pos, reader_result, supervision>>

\* The caller is done with what get_frame returned and may call again.
get_frame_returned(r) ==
    /\ reader_pc[r] = "returned"
    /\ reader_pc' = [reader_pc EXCEPT ![r] = "idle"]
    /\ UNCHANGED <<frame_lock, current_frame, heap, capture_pc, capture_frame,
                   captured, reader_src, reader_pos, reader_result,
                   supervision>>

Next ==
    \/ start
    \/ stop
    \/ _monitor_loop
    \/ get_frame
    \/ detect
    \/ detect_raises
    \/ tick

Spec == Init /\ [][Next]_vars

\* The asyncio loop runs every ready task, the executor finishes every call
\* submitted to it, and the clock advances.
LiveSpec ==
    /\ Init
    /\ [][Next]_vars
    /\ WF_vars(_monitor_loop)
    /\ WF_vars(get_frame)
    /\ WF_vars(detect)
    /\ WF_vars(tick)

\* The supervisor with its observers: handlers are registered and removed
\* at any time.
DispatchNext ==
    \/ start
    \/ stop
    \/ _monitor_loop
    \/ get_frame
    \/ detect
    \/ detect_raises
    \/ add_event_handler
    \/ remove_event_handler

DispatchSpec == DispatchInit /\ [][DispatchNext]_vars

DispatchLiveSpec ==
    /\ DispatchInit
    /\ [][DispatchNext]_vars
    /\ WF_vars(_monitor_loop)
    /\ WF_vars(get_frame)
    /\ WF_vars(detect)

\* The ActionManager called directly, as test_action_triggers calls it.
ActionNext ==
    \/ add_action
    \/ trigger_actions
    \/ execute
    \/ wait

ActionSpec == Init /\ [][ActionNext]_vars


\* The ActionManager with actions enabled and disabled between and during
\* the calls of trigger_actions, which are made a cooldown apart or less.
ManageNext ==
    \/ add_action
    \/ enable_action
    \/ disable_action
    \/ trigger_actions
    \/ execute
    \/ wait_cooldown

ManageSpec == Init /\ [][ManageNext]_vars
\* The ActionManager called from two tasks: a second call of
\* trigger_actions may be made while the first is suspended.  The calls
\* are explored at one instant of the clock.
ConcurrentNext ==
    \/ add_action
    \/ trigger_actions
    \/ execute
    \/ trigger_actions_overlapping
    \/ execute_overlapping

ConcurrentSpec == Init /\ [][ConcurrentNext]_vars
\* The application's ActionManager with its VideoRecorder, from the set-up
\* of the actions to the closing of the event loop.
RecorderNext ==
    \/ _setup_actions
    \/ trigger_actions
    \/ trigger_actions_for_alert
    \/ execute
    \/ execute_video_recorder
    \/ _record_video
    \/ record_frame
    \/ recording_completes
    \/ recording_raises
    \/ cleanup
    \/ event_loop_closes

RecorderSpec == Init /\ [][RecorderNext]_vars

\* The application's ActionManager triggered again and again for Alert
\* events while its clock advances, so that a trigger reaches the
\* VideoRecorder after the cooldown and during a recording.
RetriggerNext ==
    \/ _setup_actions
    \/ trigger_actions_for_alert
    \/ execute
    \/ execute_video_recorder
    \/ _record_video
    \/ record_frame
    \/ recording_completes
    \/ recording_raises
    \/ wait_cooldown

RetriggerSpec == Constructed(HistorySize, {0}) /\ [][RetriggerNext]_vars

\* The supervisor started and stopped by calls that may overlap, as the
\* requests POST /start and POST /stop of the web application do.
LifecycleInit == Constructed(HistorySize, {0})

LifecycleNext ==
    \/ start_call
    \/ camera_start_returns
    \/ stop_call
    \/ stop_returns
    \/ _monitor_loop
    \/ get_frame
    \/ detect
    \/ detect_raises
    \/ orphan_monitor_loop
    \/ orphan_get_frame
    \/ orphan_detect

LifecycleSpec == LifecycleInit /\ [][LifecycleNext]_vars

\* The capture thread of a started CameraCapture and the threads that call
\* its get_frame.
CameraNext ==
    \/ cap_read
    \/ capture_acquire
    \/ capture_write
    \/ capture_publish
    \/ \E r \in Readers : get_frame_acquire(r)
    \/ \E r \in Readers : get_frame_check(r)
    \/ \E r \in Readers : get_frame_copy(r)
    \/ \E r \in Readers : get_frame_return(r)
    \/ \E r \in Readers : get_frame_returned(r)

CameraSpec == LifecycleInit /\ [][CameraNext]_vars

TypeOK ==
    /\ current_state \in SupervisionState
    /\ unsupervised_start_time \in {None} \cup 0..MaxTime
    /\ Len(event_history) <= max_history_size
    /\ alert_delay_seconds \in 0..MaxDelay
    /\ max_history_size \in 1..MaxHistorySize
    /\ event_handlers \in Seq(EventHandler)
    /\ Len(event_handlers) <= MaxHandlers
    /\ is_running \in BOOLEAN
    /\ pc \in {"off", "sleep", "fetch", "detect"}
    /\ now \in 0..MaxTime \cup 0..MaxActionTime
    /\ span_alerts \in 0..2
    /\ \A i \in 1..Len(actions) : actions[i].name \in AppActionName
    /\ is_recording \in BOOLEAN
    /\ application \in {"serving", "cleaned_up", "closed"}
    /\ camera_running \in BOOLEAN
    /\ start_calls \in 0..MaxStartCalls
    /\ stop_pc \in {"none", "camera"}
    /\ orphan_pc \in {"none", "sleep", "fetch", "detect"}
    /\ settled \in BOOLEAN
    /\ ever_started \in BOOLEAN
    /\ batch.status \in {"none", "running", "done"}
    /\ Len(batch.log) <= Len(actions)


\* ================================================================ claims
\* The transition rule of the specification, section 4.1: the target state
\* of a cycle as a function of its counts alone.
Target(dogs, humans) ==
    IF dogs = 0 THEN IDLE
    ELSE IF humans = 0 THEN UNSUPERVISED
    ELSE SUPERVISED

\* The counts of the observed cycle are (d > 0, h = 0).
DogAlone == cycle.dogs > 0 /\ cycle.humans = 0

\* The monitor task is not inside a detection cycle.
NoCycleExecuting == pc \in {"off", "sleep"}

\* The state-change events (every event but an Alert) among the events the
\* observed cycle handed to the handlers.
StateChangeEvents == SelectSeq(cycle.emitted, LAMBDA e : e.state # ALERT)

\* The Alert events among them.
AlertEvents == SelectSeq(cycle.emitted, LAMBDA e : e.state = ALERT)

\* A step that ends a detection cycle by evaluating the detector's counts.
\* In such a step the unprimed variables are the supervisor as the cycle
\* found it and cycle' holds the counts and what the cycle handed out.
Evaluates == pc = "detect" /\ cycle'.evaluated

\* C1: after a detection cycle that obtained a frame and the counts (d, h),
\* current_state is Idle if d = 0, Supervised if d > 0 and h > 0, and
\* Unsupervised or Alert if d > 0 and h = 0, whatever the state before it.
C1_StateFollowsCounts ==
    (cycle.evaluated /\ NoCycleExecuting) =>
        /\ (cycle.dogs = 0) => current_state = IDLE
        /\ (cycle.dogs > 0 /\ cycle.humans > 0) => current_state = SUPERVISED
        /\ (cycle.dogs > 0 /\ cycle.humans = 0) =>
               current_state \in {UNSUPERVISED, ALERT}

\* A cycle that saw the dog alone has just left the supervisor in Alert.
C1_Witness ==
    /\ cycle.evaluated
    /\ DogAlone
    /\ Len(AlertEvents) = 1
    /\ current_state = ALERT

\* C2: over a maximal run of consecutive detection cycles whose counts are
\* all (d > 0, h = 0), the supervisor emits at most one Alert event.
C2_OneAlertPerSpan == span_alerts <= 1

\* C3: from the cycle that enters Unsupervised until the first later cycle
\* whose counts are not (d > 0, h = 0), the unsupervised timer keeps its
\* value: a cycle that sees the dog alone while the state is Unsupervised or
\* Alert leaves the timer as it was.
C3_TimerKeptInSpan ==
    [][(/\ Evaluates
        /\ cycle'.dogs > 0
        /\ cycle'.humans = 0
        /\ current_state \in {UNSUPERVISED, ALERT})
       => unsupervised_start_time' = unsupervised_start_time]_vars

\* C4: whenever no detection cycle is executing, the timer is non-null if
\* and only if current_state is Unsupervised or Alert.
C4_TimerInvariant ==
    NoCycleExecuting =>
        ((unsupervised_start_time # None)
            <=> (current_state \in {UNSUPERVISED, ALERT}))

\* The supervisor is in Alert and the timer set on entering Unsupervised
\* is still running.
C4_Witness ==
    /\ NoCycleExecuting
    /\ current_state = ALERT
    /\ unsupervised_start_time # None
    /\ unsupervised_start_time < now

\* C5: a detection cycle emits a state-change event if and only if the
\* target state computed from its counts differs from current_state; it
\* then emits exactly one, carrying the target state and the cycle's
\* counts, and current_state becomes the target.
C5_StateChangeEvent ==
    [][Evaluates =>
        LET target == Target(cycle'.dogs, cycle'.humans)
            changes == SelectSeq(cycle'.emitted, LAMBDA e : e.state # ALERT)
        IN  IF target # current_state
            THEN /\ Len(changes) = 1
                 /\ changes[1].state = target
                 /\ changes[1].dogs_detected = cycle'.dogs
                 /\ changes[1].humans_detected = cycle'.humans
                 /\ current_state' = target
            ELSE Len(changes) = 0]_vars

\* A cycle inside a span that has already raised its Alert emitted the
\* change (from Alert) to Unsupervised.
C5_Witness ==
    /\ cycle.evaluated
    /\ span_alerts >= 1
    /\ Len(StateChangeEvents) = 1
    /\ StateChangeEvents[1].state = UNSUPERVISED

\* C6: an Alert event is emitted only in a cycle that found current_state
\* Unsupervised, saw (d > 0, h = 0), found the timer set and
\* now - timer >= alert_delay_seconds; its duration_unsupervised is that
\* elapsed time; the cycle that changes the state to Unsupervised emits none.
C6_AlertOnlyWhenDue ==
    [][Evaluates =>
        LET alerts == SelectSeq(cycle'.emitted, LAMBDA e : e.state = ALERT)
        IN  /\ \A i \in 1..Len(alerts) :
                  /\ current_state = UNSUPERVISED
                  /\ cycle'.dogs > 0
                  /\ cycle'.humans = 0
                  /\ unsupervised_start_time # None
                  /\ now - unsupervised_start_time >= alert_delay_seconds
                  /\ alerts[i].duration_unsupervised
                        = now - unsupervised_start_time
                  /\ alerts[i].duration_unsupervised >= alert_delay_seconds
            /\ (current_state # UNSUPERVISED /\ current_state' = UNSUPERVISED)
                  => Len(alerts) = 0]_vars

\* An Alert event was emitted later than the delay asked for.
C6_Witness ==
    /\ cycle.evaluated
    /\ Len(AlertEvents) = 1
    /\ alert_delay_seconds = 1
    /\ AlertEvents[1].duration_unsupervised = 2

\* The monitor loop keeps running and every cycle obtains a frame in which
\* the dog is alone.
DogStaysAlone ==
    /\ is_running
    /\ cycle.frame # "none"
    /\ ~cycle.raised
    /\ cycle.evaluated => DogAlone

\* C7: if the monitor loop keeps running and every cycle obtains a frame
\* with counts (d > 0, h = 0), then the supervisor enters an unsupervised
\* span, and an Alert event is eventually emitted, at the first cycle after
\* entering Unsupervised at which the elapsed time is >= alert_delay_seconds.
\* (The clock of the model stops at MaxTime: the Alert is required only of a
\* span whose delay ends by then.)
C7_AlertEventually ==
    /\ []([]DogStaysAlone => <>(current_state \in {UNSUPERVISED, ALERT}))
    /\ []((/\ current_state = UNSUPERVISED
           /\ unsupervised_start_time # None
           /\ unsupervised_start_time + alert_delay_seconds <= MaxTime
           /\ []DogStaysAlone)
          => <>(Len(AlertEvents) = 1))
    /\ [][(/\ Evaluates
           /\ cycle'.dogs > 0
           /\ cycle'.humans = 0
           /\ current_state = UNSUPERVISED
           /\ unsupervised_start_time # None
           /\ now - unsupervised_start_time >= alert_delay_seconds)
          => (/\ Len(SelectSeq(cycle'.emitted, LAMBDA e : e.state = ALERT)) = 1
              /\ current_state' = ALERT)]_vars

\* The loop is running and has emitted an Alert after the longest delay.
C7_Witness ==
    /\ is_running
    /\ cycle.evaluated
    /\ alert_delay_seconds = MaxDelay
    /\ Len(AlertEvents) = 1
    /\ current_state = ALERT

\* C8 (Scenario A): from Idle, the samples (0,0), (1,0), (1,0), (1,0) taken
\* one second apart with alert_delay = 2 leave the states Idle,
\* Unsupervised, Unsupervised, Alert, with exactly one state-change event
\* (to Unsupervised, at sample 2) and exactly one Alert event, emitted when
\* the elapsed unsupervised time is 2 s.
C8_ScenarioA ==
    (alert_delay_seconds = 2 /\ scenario.a \in 1..4) =>
        LET changed == SupervisionEvent(UNSUPERVISED, scenario.a_at, 1, 0, None)
            alerted == SupervisionEvent(ALERT, scenario.a_at, 1, 0, 2)
        IN  /\ scenario.a = 1 =>
                 /\ current_state = IDLE
                 /\ cycle.evaluated => cycle.emitted = <<>>
                 /\ event_history = <<>>
            /\ scenario.a = 2 =>
                 /\ current_state = UNSUPERVISED
                 /\ cycle.evaluated => cycle.emitted = <<changed>>
            /\ scenario.a = 3 =>
                 /\ current_state = UNSUPERVISED
                 /\ cycle.evaluated => cycle.emitted = <<>>
            /\ scenario.a = 4 =>
                 /\ current_state = ALERT
                 /\ cycle.evaluated => cycle.emitted = <<alerted>>
                 /\ unsupervised_start_time = scenario.a_at - 2
                 /\ event_history[Len(event_history)] = alerted

\* Scenario A has run to its fourth sample.
C8_Witness ==
    /\ alert_delay_seconds = 2
    /\ scenario.a = 4
    /\ cycle.evaluated

\* C9 (Scenario B): from Idle, the samples (1,1), (1,0), (1,1) produce
\* Idle -> Supervised -> Unsupervised -> Supervised; the timer is null after
\* the first and the third cycle and non-null after the second; no Alert
\* event is emitted.
C9_ScenarioB ==
    LET Changed(old_state, new_state, dogs, humans) ==
            cycle.evaluated =>
                /\ Len(cycle.emitted) = 1
                /\ cycle.emitted[1]
                      = SupervisionEvent(new_state, cycle.emitted[1].timestamp,
                                         dogs, humans, None)
                /\ cycle.notified = << <<old_state, new_state>> >>
    IN  /\ scenario.b = 1 =>
             /\ current_state = SUPERVISED
             /\ unsupervised_start_time = None
             /\ Changed(IDLE, SUPERVISED, 1, 1)
        /\ scenario.b = 2 =>
             /\ current_state = UNSUPERVISED
             /\ unsupervised_start_time # None
             /\ Changed(SUPERVISED, UNSUPERVISED, 1, 0)
        /\ scenario.b = 3 =>
             /\ current_state = SUPERVISED
             /\ unsupervised_start_time = None
             /\ Changed(UNSUPERVISED, SUPERVISED, 1, 1)

\* Scenario B has run to its third sample, the second having come before
\* the alert delay ran out.
C9_Witness ==
    /\ scenario.b = 3
    /\ cycle.evaluated
    /\ alert_delay_seconds = MaxDelay
    /\ now < MaxDelay

\* C10: a detection cycle in which the frame source returns no frame
\* changes neither current_state nor the timer nor the event history, does
\* not run the detector and calls no event or state-change handler.
C10_NoFrameNoOp ==
    [][(cycle.frame = "pending" /\ cycle'.frame = "none")
       => (/\ current_state' = current_state
           /\ unsupervised_start_time' = unsupervised_start_time
           /\ event_history' = event_history
           /\ ~cycle'.detected
           /\ ~cycle'.evaluated
           /\ cycle'.emitted = <<>>
           /\ cycle'.notified = <<>>)]_vars

\* A cycle without a frame has ended while the timer was running.
C10_Witness ==
    /\ cycle.frame = "none"
    /\ pc = "sleep"
    /\ current_state = UNSUPERVISED
    /\ unsupervised_start_time # None

\* C11: an exception raised by the frame fetch or by the detector during a
\* cycle is caught by the monitor loop: the cycle leaves current_state, the
\* timer and the event history as they were and calls no handler, the
\* monitor task is not ended, and while the supervisor is running a later
\* cycle begins.
C11_CycleErrorCaught ==
    /\ [][(~cycle.raised /\ cycle'.raised)
          => (/\ current_state' = current_state
              /\ unsupervised_start_time' = unsupervised_start_time
              /\ event_history' = event_history
              /\ cycle'.emitted = <<>>
              /\ cycle'.notified = <<>>
              /\ ~cycle'.evaluated
              /\ is_running' = is_running
              /\ pc' = "sleep")]_vars
    /\ (cycle.raised /\ is_running) ~> (~cycle.raised \/ ~is_running)

\* The detector raised in a cycle that found the timer running, and the
\* supervisor is still running.
C11_Witness ==
    /\ cycle.raised
    /\ cycle.detected
    /\ is_running
    /\ pc = "sleep"
    /\ current_state = UNSUPERVISED
    /\ unsupervised_start_time # None
    /\ Len(event_history) = 1

\* The last n entries of a sequence (all of it when it has fewer).
LastN(seq, n) ==
    IF Len(seq) <= n THEN seq ELSE SubSeq(seq, Len(seq) - n + 1, Len(seq))

\* C12: the event history never holds more than max_history_size events,
\* and every step leaves in it the max_history_size most recent of the
\* events emitted so far, in emission order: the history after a step is
\* the history before it followed by the events the step emitted, cut to
\* its last max_history_size entries.
C12_HistoryBound ==
    /\ [](Len(event_history) <= max_history_size)
    /\ [][event_history'
            = LastN(event_history \o (IF Evaluates THEN cycle'.emitted
                                      ELSE <<>>),
                    max_history_size)]_vars

\* A history of capacity 2 is full and has evicted its oldest event: it
\* starts with a change to Idle, which is never the first event emitted,
\* and ends with the event of the last cycle.
C12_Witness ==
    /\ max_history_size = 2
    /\ Len(event_history) = 2
    /\ event_history[1].state = IDLE
    /\ cycle.evaluated
    /\ cycle.emitted = <<event_history[2]>>

\* C13: a handler that raises on every call does not keep the other
\* registered handlers from being called with an emitted event, does not
\* end the broadcast, is not re-raised to the emitting cycle and does not
\* keep the cycle from updating current_state.
C13_ObserverIsolation ==
    [][(/\ Evaluates
        /\ \E i \in 1..Len(event_handlers) : event_handlers[i] = "raising")
       => (/\ ~cycle'.raised
           /\ \A k \in 1..Len(cycle'.emitted) :
                 /\ \A i \in 1..Len(event_handlers) :
                       \E c \in 1..Len(cycle'.calls) :
                          /\ cycle'.calls[c].handler = event_handlers[i]
                          /\ cycle'.calls[c].event = cycle'.emitted[k]
                 /\ Len(cycle'.calls) = Len(event_handlers)
                 /\ current_state' = cycle'.emitted[k].state)]_vars

\* An Alert was handed first to the raising handler and then to the web
\* application's handler, and the supervisor is in Alert.
C13_Witness ==
    /\ cycle.evaluated
    /\ event_handlers = <<"raising", "web_app.on_event">>
    /\ Len(cycle.calls) = 2
    /\ cycle.calls[1].result = "raised"
    /\ cycle.calls[2].handler = "web_app.on_event"
    /\ cycle.calls[2].result = "returned"
    /\ cycle.calls[2].event.state = ALERT
    /\ current_state = ALERT

\* C14: for each emitted event the append to the history happens before any
\* handler is called, and the registered handlers are then called with the
\* event in registration order.
C14_AppendThenHandlersInOrder ==
    [][Evaluates =>
        \A k \in 1..Len(cycle'.emitted) :
           /\ Len(cycle'.calls) = Len(event_handlers)
           /\ \A i \in 1..Len(event_handlers) :
                 /\ cycle'.calls[i].handler = event_handlers[i]
                 /\ cycle'.calls[i].event = cycle'.emitted[k]
                 /\ cycle'.calls[i].recorded]_vars

\* Two different handlers were called in the order of their registration
\* with an event the history already held.
C14_Witness ==
    /\ cycle.evaluated
    /\ event_handlers = <<"web_app.on_event", "main.on_event">>
    /\ Len(cycle.emitted) = 1
    /\ Len(cycle.calls) = 2
    /\ cycle.calls[1].handler = "web_app.on_event"
    /\ cycle.calls[2].handler = "main.on_event"
    /\ cycle.calls[1].recorded
    /\ event_history[Len(event_history)] = cycle.emitted[1]

\* The events a cycle can emit as an Alert at the instant at which the
\* dispatch is explored.
PossibleAlerts ==
    {SupervisionEvent(ALERT, 0, dogs, 0, 0) : dogs \in 1..MaxCount}

\* The supervisor has just called the application's on_event with event.
HandedToOnEvent(event) ==
    /\ cycle.evaluated
    /\ \E c \in 1..Len(cycle.calls) :
          /\ cycle.calls[c].handler = "main.on_event"
          /\ cycle.calls[c].event = event

\* trigger_actions has been called with the event_data of event.
TriggeredWith(event) ==
    \/ batch.status # "none" /\ batch.event_data = event_data_of(event)
    \/ previous.status # "none" /\ previous.event_data = event_data_of(event)

\* C15: with the application's on_event registered through
\* add_event_handler, every Alert event the supervisor emits is eventually
\* followed by a call of ActionManager.trigger_actions with that event's
\* payload.  (It is required only while the supervisor keeps running: an
\* application stopped first is not held to it.)
C15_AlertTriggersActions ==
    \A event \in PossibleAlerts :
       HandedToOnEvent(event) ~> (TriggeredWith(event) \/ ~is_running)

\* A step of trigger_actions: the call itself or the return of an awaited
\* execution.  The lines of batch'.log from DecidedFrom on are the actions
\* the loop decided in the step, line i being the decision for actions[i].
LoopStep == trigger_actions \/ execute
DecidedFrom == IF batch.status = "running" THEN Len(batch.log) + 1 ELSE 1

\* A step in which an awaited execution returns False or raises.
ExecutionFails ==
    /\ execute
    /\ batch'.log[Len(batch.log)].outcome \in {"failed", "raised"}

\* C16: for an enabled action with a successful trigger recorded at time t,
\* a trigger_actions call at time t' skips the action as on cooldown if
\* t' - t < cooldown_seconds and executes it if t' - t >= cooldown_seconds;
\* the decision depends on no other action's timestamp.
C16_Cooldown ==
    [][LoopStep =>
        \A i \in DecidedFrom..Len(batch'.log) :
           LET name == batch'.log[i].name
               t == last_trigger_time[name]
           IN  (actions[i].enabled /\ t # None) =>
                  /\ (batch'.current_time - t < cooldown_seconds)
                        => batch'.log[i].decision = "cooldown"
                  /\ (batch'.current_time - t >= cooldown_seconds)
                        => batch'.log[i].decision = "executed"]_vars

\* A call at time 60 skipped its first action, triggered at 10, and
\* executed its second, triggered at 0.
C16_Witness ==
    /\ batch.status = "done"
    /\ batch.current_time = 60
    /\ Len(batch.log) = 2
    /\ batch.log[1].decision = "cooldown"
    /\ last_trigger_time[batch.log[1].name] = 10
    /\ batch.log[2].decision = "executed"
    /\ batch.log[2].outcome = "failed"
    /\ last_trigger_time[batch.log[2].name] = 0

\* C17: an execution that returns False or raises leaves the action's
\* cooldown timestamp (and every other) as it was, and the loop goes on
\* with the next action; an enabled action whose latest execution failed
\* is executed by the next call that reaches it, whatever the time.
C17_FailureKeepsTimestamp ==
    /\ [][ExecutionFails =>
            /\ last_trigger_time' = last_trigger_time
            /\ \/ batch'.status = "done" /\ Len(batch'.log) = Len(actions)
               \/ batch'.status = "running" /\ batch'.index > batch.index]_vars
    /\ [][LoopStep =>
            \A i \in DecidedFrom..Len(batch'.log) :
               (/\ actions[i].enabled
                /\ attempts[batch'.log[i].name].last \in {"failed", "raised"})
               => batch'.log[i].decision = "executed"]_vars

\* An action triggered at 0 failed in the call at 60 and was executed again
\* by the next call, made at the same instant.
C17_Witness ==
    /\ previous.status = "done"
    /\ batch.status # "none"
    /\ previous.current_time = 60
    /\ batch.current_time = 60
    /\ Len(previous.log) >= 1
    /\ Len(batch.log) >= 1
    /\ previous.log[1].outcome = "failed"
    /\ batch.log[1].decision = "executed"
    /\ last_trigger_time[batch.log[1].name] = 0

\* A call in which two enabled actions were executed, the first returning
\* False and the second succeeding, was followed 10 s later by the current
\* call, with cooldown 60 s.
ScenarioC ==
    /\ cooldown_seconds = 60
    /\ Len(actions) = 2
    /\ \A i \in 1..2 : actions[i].enabled
    /\ previous.status = "done"
    /\ Len(previous.log) = 2
    /\ previous.log[1] = Entry(actions[1].name, "executed", "failed")
    /\ previous.log[2] = Entry(actions[2].name, "executed", "success")
    /\ batch.status # "none"
    /\ batch.current_time = previous.current_time + 10

\* C18 (Scenario C): with two enabled actions and cooldown 60 s, after a
\* trigger in which action 1 returned False and action 2 succeeded, a
\* trigger 10 s later executes action 1 again and skips action 2 as on
\* cooldown.
C18_ScenarioC ==
    ScenarioC =>
        /\ Len(batch.log) >= 1
        /\ batch.log[1].name = actions[1].name
        /\ batch.log[1].decision = "executed"
        /\ batch.status = "done" =>
              /\ Len(batch.log) = 2
              /\ batch.log[2] = Entry(actions[2].name, "cooldown", "none")

\* Scenario C has run to the end of its second trigger, the first having
\* been made at time 0.
C18_Witness ==
    /\ ScenarioC
    /\ previous.current_time = 0
    /\ batch.status = "done"

\* C19: an action that raises or returns False keeps no action registered
\* after it from being attempted in the same call: the loop decides each
\* later action as it would have otherwise and the call ends only after
\* the last action; trigger_actions never raises because of an action.
C19_ActionIsolation ==
    /\ [](batch.status # "raised")
    /\ [][ExecutionFails =>
            /\ \/ batch'.status = "done" /\ Len(batch'.log) = Len(actions)
               \/ /\ batch'.status = "running"
                  /\ batch'.index = Len(batch'.log)
                  /\ batch'.log[batch'.index].outcome = "pending"
            /\ \A i \in DecidedFrom..Len(batch'.log) :
                  LET t == last_trigger_time[actions[i].name]
                  IN  /\ batch'.log[i].name = actions[i].name
                      /\ batch'.log[i].decision =
                            IF ~actions[i].enabled THEN "disabled"
                            ELSE IF /\ t # None
                                    /\ batch'.current_time - t
                                          < cooldown_seconds
                                 THEN "cooldown"
                                 ELSE "executed"]_vars

\* The first action of a call raised and the second was executed and
\* succeeded.
C19_Witness ==
    /\ batch.status = "done"
    /\ Len(batch.log) = 2
    /\ batch.log[1].outcome = "raised"
    /\ batch.log[2].decision = "executed"
    /\ batch.log[2].outcome = "success"

\* C20: the last_triggered of an action, as get_status reports it once no
\* execution of the action is pending, is null until an execution of the
\* action has succeeded.
C20_LastTriggeredNullUntilSuccess ==
    \A i \in 1..Len(actions) :
       (/\ actions[i].last_triggered # None
        /\ ~(batch.status = "running" /\ batch.index = i))
       => attempts[actions[i].name].succeeded


\* C21: a disabled action is skipped by trigger_actions: it is not
\* executed, and its cooldown timestamp and its last_triggered stay as they
\* were; the other actions of the call are decided as if it were not there,
\* each by its own flag and timestamp, and the call ends only after the
\* last action.
C21_DisabledSkipped ==
    [][LoopStep =>
        /\ batch'.status = "done" => Len(batch'.log) = Len(actions)
        /\ \A i \in DecidedFrom..Len(batch'.log) :
              LET name == actions[i].name
                  t == last_trigger_time[name]
              IN  IF ~actions[i].enabled
                  THEN /\ batch'.log[i] = Entry(name, "disabled", "none")
                       /\ last_trigger_time'[name] = t
                       /\ actions'[i] = actions[i]
                  ELSE batch'.log[i].decision =
                          IF t # None /\ batch'.current_time - t
                                            < cooldown_seconds
                          THEN "cooldown"
                          ELSE "executed"]_vars

\* A call at time 60 skipped its first action, disabled after a success at
\* time 0 (so that its cooldown was over), and executed its second.
C21_Witness ==
    /\ batch.status = "done"
    /\ batch.current_time = 60
    /\ Len(batch.log) = 2
    /\ batch.log[1].decision = "disabled"
    /\ ~actions[1].enabled
    /\ last_trigger_time[actions[1].name] = 0
    /\ actions[1].last_triggered = 0
    /\ batch.log[2].decision = "executed"
    /\ batch.log[2].outcome = "success"

\* A step of a trigger_actions call made while another is suspended.  The
\* lines of overlapping'.log from OverlappingDecidedFrom on are the actions
\* decided in the step.
OverlappingStep == trigger_actions_overlapping \/ execute_overlapping
OverlappingDecidedFrom ==
    IF overlapping.status = "running" THEN Len(overlapping.log) + 1 ELSE 1

\* C22: nothing serialises trigger_actions calls.  A call that decides to
\* execute an action records no timestamp before the execution has
\* succeeded, so a second call, made while the first is suspended in the
\* execution of an action, decides that action by the timestamps alone and
\* executes it too unless a recorded success puts it on cooldown.
C22_ConcurrentCallsBothExecute ==
    /\ [][LoopStep =>
            \A i \in DecidedFrom..Len(batch'.log) :
               last_trigger_time'[actions[i].name]
                  = last_trigger_time[actions[i].name]]_vars
    /\ [][OverlappingStep =>
            \A i \in OverlappingDecidedFrom..Len(overlapping'.log) :
               LET t == last_trigger_time[actions[i].name]
               IN  (/\ batch.status = "running"
                    /\ batch.index = i
                    /\ ~(t # None /\ overlapping'.current_time - t
                                        < cooldown_seconds))
                   => overlapping'.log[i] =
                         Entry(actions[i].name, "executed", "pending")]_vars

\* Two calls are both suspended in the execution of the same action, the
\* second of two registered, which neither found on cooldown, after both
\* skipped the first as on cooldown.
C22_Witness ==
    /\ batch.status = "running"
    /\ overlapping.status = "running"
    /\ batch.index = 2
    /\ overlapping.index = 2
    /\ batch.log[1].decision = "cooldown"
    /\ overlapping.log[1].decision = "cooldown"
    /\ batch.log[2] = Entry(actions[2].name, "executed", "pending")
    /\ overlapping.log[2] = Entry(actions[2].name, "executed", "pending")

\* A step in which the VideoRecorder, not recording and given a camera, is
\* executed; and the steps of the recording task.
StartsRecording ==
    /\ execute_video_recorder
    /\ ~is_recording
    /\ batch.event_data.camera # None
RecordingStep ==
    _record_video \/ record_frame \/ recording_completes \/ recording_raises

\* C23: the execution of the VideoRecorder returns True as soon as the
\* recording task is created, so that trigger_actions records the success
\* and goes on with the later actions, or returns, while the recording is
\* still in progress; nothing the recording task does afterwards, its
\* failure included, reaches the ActionManager.
C23_RecordingDoesNotBlock ==
    /\ [][StartsRecording =>
            /\ batch'.log[batch.index].outcome = "success"
            /\ last_trigger_time'["video_recorder"] = batch.current_time
            /\ is_recording'
            /\ recording_task' = RecordingTask("created", 0, FALSE)
            /\ \/ batch'.status = "done" /\ Len(batch'.log) = Len(actions)
               \/ /\ batch'.status = "running"
                  /\ batch'.index > batch.index]_vars
    /\ [][RecordingStep =>
            UNCHANGED <<actions, last_trigger_time, cooldown_seconds, batch,
                        previous, attempts, overlapping>>]_vars

\* A call has returned, with the VideoRecorder and the NotificationSender
\* after it both reported as successes, and the recording it started then
\* failed after its first frame.
C23_Witness ==
    /\ batch.status = "done"
    /\ \E i \in 1..(Len(batch.log) - 1) :
          /\ batch.log[i] = Entry("video_recorder", "executed", "success")
          /\ batch.log[i + 1] = Entry("notification", "executed", "success")
    /\ last_trigger_time["video_recorder"] = batch.current_time
    /\ recording_task = RecordingTask("failed", 1, FALSE)
\* C27: when the application's cleanup returns, no recording is in
\* progress: a recording that was in progress has been cancelled and has
\* released its writer.
C27_CleanupEndsRecording ==
    [][cleanup =>
          /\ ~InProgress(recording_task')
          /\ InProgress(recording_task) =>
                /\ recording_task'.status = "cancelled"
                /\ recording_task'.released]_vars


\* C24: a start() call on a running supervisor returns at once: it starts
\* no camera and creates no monitor task, and current_state, the timer and
\* the history are as they were.
C24_StartWhenRunningNoOp ==
    [][(start_call /\ is_running) =>
          /\ returned' = [op |-> "start", result |-> "noop"]
          /\ UNCHANGED <<camera_running, start_calls, is_running, pc,
                         orphan_pc, current_state, unsupervised_start_time,
                         event_history>>]_vars

\* start() returned at once on a running supervisor that had recorded an
\* event and whose monitor task was awaiting a detection.
C24_Witness ==
    /\ returned = [op |-> "start", result |-> "noop"]
    /\ is_running
    /\ pc = "detect"
    /\ orphan_pc = "none"
    /\ start_calls = 0
    /\ event_history # <<>>

\* C25: a start() call whose camera.start() returns False raises and
\* creates no monitor task: the flag and the tasks are as they were, and as
\* long as no start() call has succeeded the supervisor is not running, has
\* no monitor task and has run no cycle.
C25_CameraFailureLeavesStopped ==
    /\ [][(camera_start_returns /\ ~camera_running') =>
            /\ returned' = [op |-> "start", result |-> "raised"]
            /\ UNCHANGED <<is_running, pc, orphan_pc, camera_running,
                           ever_started>>]_vars
    /\ [](~ever_started =>
            /\ ~is_running
            /\ pc = "off"
            /\ orphan_pc = "none"
            /\ cycle = FreshCycle
            /\ event_history = <<>>)

\* A start() call has raised, no other is in progress, and the supervisor
\* has never run.
C25_Witness ==
    /\ returned = [op |-> "start", result |-> "raised"]
    /\ start_calls = 0
    /\ ~ever_started
    /\ ~is_running
    /\ pc = "off"
\* stop() has returned, it was called with no start() call in progress and
\* start() has not been called since.
Stopped == settled /\ stop_pc = "none"

\* C26: once stop() has returned and until start() is called again,
\* is_running is false, the camera is stopped, no monitor task is left and
\* nothing changes the state, the timer or the history.
C26_StoppedIsQuiet ==
    /\ [](Stopped => ~is_running /\ ~camera_running /\ pc = "off")
    /\ [][Stopped =>
            /\ UNCHANGED <<current_state, unsupervised_start_time,
                           event_history, cycle>>
            /\ orphan_pc' \in {orphan_pc, "none"}]_vars

\* C28: at most one detection call of the supervisor's monitor loop is in
\* flight.
C28_OneDetectionInFlight == ~(pc = "detect" /\ orphan_pc = "detect")

\* C29: whenever an event handler is called with an event, the state that
\* get_current_status returns to it is the state of the event.
C29_HandlersSeeEventState ==
    \A c \in 1..Len(cycle.calls) :
       cycle.calls[c].seen = cycle.calls[c].event.state

\* C30: the last_event_count of get_current_status counts every event
\* emitted: a cycle that emits events raises it by their number.
C30_CountsAllEvents ==
    [][Evaluates =>
          get_current_status'.last_event_count
             = get_current_status.last_event_count + Len(cycle'.emitted)]_vars


\* C31: for every K >= 0, get_recent_events(K) returns exactly the last
\* min(K, length of the history) events of the history, oldest first.
C31_RecentEventsAreLastK ==
    \A K \in 0..MaxLimit :
        get_recent_events(K) = LastN(event_history, K)

\* A get_frame call is inside its with block.
InGetFrame(r) == reader_pc[r] \in {"locked", "copy"}

\* The call of r has returned an array.
ReturnedFrame(r) == reader_pc[r] = "returned" /\ reader_result[r] # None

\* C32: the latest frame is never read torn.  The capture thread's write of
\* current_frame and a get_frame call are never in progress at the same
\* time, nor are two get_frame calls; an array get_frame returns is one
\* whole captured image, the one the slot held, in an array of its own that
\* neither the slot nor the capture thread refers to and that no later step
\* changes; get_frame returns None exactly when the slot held no frame.
C32_FrameNeverTorn ==
    /\ [](\A r \in Readers :
            InGetFrame(r) =>
                /\ capture_pc # "write"
                /\ \A q \in Readers \ {r} : ~InGetFrame(q))
    /\ [](\A r \in Readers :
            reader_pc[r] = "returned" =>
                IF reader_src[r] = None
                THEN reader_result[r] = None
                ELSE /\ reader_result[r] \notin {None, current_frame,
                                                  capture_frame}
                     /\ \A q \in Readers \ {r} :
                            reader_result[q] # reader_result[r]
                     /\ heap[reader_result[r]] = heap[reader_src[r]]
                     /\ \E n \in 1..captured :
                            heap[reader_result[r]] = Image(n))
    /\ [][\A r \in Readers :
            ReturnedFrame(r) /\ reader_pc'[r] = "returned" =>
                heap'[reader_result[r]] = heap[reader_result[r]]]_vars

\* A get_frame call has returned its copy of the first image, the capture
\* thread has since bound the slot to the second image, and another
\* get_frame call is copying that one while the capture thread is idle.
C32_Witness ==
    /\ ReturnedFrame(1)
    /\ heap[reader_result[1]] = Image(1)
    /\ current_frame # None
    /\ heap[current_frame] = Image(2)
    /\ reader_pc[2] = "copy"

\* The event emitted last before the i-th event of a cycle: the event
\* before it in the cycle or, for the first, the newest entry of the
\* history the cycle found.
EmittedBefore(emitted, i) ==
    IF i > 1 THEN emitted[i - 1] ELSE event_history[Len(event_history)]

\* C33: in the sequence of events a supervisor emits, no two consecutive
\* events have the same state, and every Alert event is immediately
\* preceded by an Unsupervised event (so the first event is no Alert).
C33_EventsAlternate ==
    [][Evaluates =>
        \A i \in 1..Len(cycle'.emitted) :
            LET event == cycle'.emitted[i]
            IN  IF i = 1 /\ event_history = <<>>
                THEN event.state # ALERT
                ELSE LET before == EmittedBefore(cycle'.emitted, i)
                     IN  /\ event.state # before.state
                         /\ event.state = ALERT
                                => before.state = UNSUPERVISED]_vars

\* A cycle has emitted the second Alert event of one span with a dog
\* alone: the events before it were Alert and then Unsupervised.
C33_Witness ==
    /\ cycle.evaluated
    /\ AlertEvents # <<>>
    /\ span_alerts = 2
    /\ current_state = ALERT

\* C34: whenever no detection cycle is executing, current_state is the
\* state of the event emitted last (the newest entry of the history), or
\* Idle if the supervisor has emitted no event yet.
C34_StateIsLastEventState ==
    NoCycleExecuting =>
        current_state = IF event_history = <<>>
                        THEN IDLE
                        ELSE event_history[Len(event_history)].state

\* The monitor task sleeps after a cycle that emitted an Alert event to a
\* handler that raised.
C34_Witness ==
    /\ pc = "sleep"
    /\ cycle.evaluated
    /\ AlertEvents # <<>>
    /\ current_state = ALERT
    /\ \E i \in 1..Len(cycle.calls) : cycle.calls[i].result = "raised"

\* C35: every change of current_state, the change from Unsupervised to
\* Alert included, is reported to the state-change handlers as
\* (old_state, new_state): the evaluation that changes current_state runs
\* the loop over state_change_handlers once, with the state before and
\* the state after.
C35_EveryChangeReported ==
    [][Evaluates /\ current_state' # current_state =>
        cycle'.notified = << <<current_state, current_state'>> >>]_vars

\* C36: VideoRecorder.is_recording is true only while a recording task
\* started by its execution is still in progress: it is false after an
\* execution that returned false and after the recording task has ended.
C36_RecordingOnlyWhileTaskRuns ==
    is_recording => InProgress(recording_task)

C38_AtMostOneMonitorTask ==
    /\ ~(pc # "off" /\ orphan_pc # "none")
    /\ Stopped => pc = "off" /\ orphan_pc = "none"

\* A step in which a running supervisor is stopped, and one in which a
\* stopped supervisor is started.
Stops == is_running /\ ~is_running'
Starts == ~is_running /\ is_running'

\* C39: stop() leaves current_state, the unsupervised-timer and the event
\* history unchanged, and so does a later start(): the supervisor resumes
\* from the same state with the same timer value.
C39_StopKeepsState ==
    [][Stops \/ Starts =>
        UNCHANGED <<current_state, unsupervised_start_time, event_history>>]_vars

\* A supervisor stopped while a dog was alone: it is still Unsupervised,
\* with the timer set earlier and the event in its history.
C39_Witness ==
    /\ ~is_running
    /\ pc = "off"
    /\ current_state = UNSUPERVISED
    /\ unsupervised_start_time # None
    /\ unsupervised_start_time < now
    /\ event_history # <<>>
=============================================================================
